---- MODULE Spec2Model ----
(***************************************************************************)
(* Model of the Mad PMax Apps Script layer (functions/appScript): the      *)
(* cell-edit handler and minimum-asset validator (changes_tracking.ts),    *)
(* the customer -> campaign -> asset-group index kept in the document      *)
(* property (sheets_utils.ts), and the menu actions that publish Pub/Sub   *)
(* messages (custom_menu.ts, pubsub.ts).                                   *)
(*                                                                         *)
(* Strings are modelled as sequences of segments: the empty string is      *)
(* <<>>, a literal 'abc' is <<"abc">>, concatenation is \o.  A string      *)
(* that the code inspects character by character (a URL, a Pub/Sub         *)
(* command) is segmented into its characters.                              *)
(***************************************************************************)
EXTENDS Integers, Sequences, FiniteSets, TLC

VARIABLES
  newAssetGroups,  \* sheet 'NewAssetGroups': sequence of rows, row id = index - 1
  newCampaigns,    \* sheet 'NewCampaigns'
  campaignList,    \* sheet 'CampaignList'
  assetGroupList,  \* sheet 'AssetGroupList'
  property,        \* document property 'UserEditedCampaignValues'
  hasAccess,       \* OAuth2 service.hasAccess()
  requests,        \* HTTP requests sent by UrlFetchApp.fetch, in order
  sidebar,         \* number of times the authorization sidebar was shown
  last,            \* what the last handler run did
  assets,          \* sheet 'Assets'
  validation,      \* data-validation rules set on cells: the values of each dropdown
  edit,            \* the user's last cell edit (the event given to the handlers) and the number of edits made
  inputSheet,      \* the input sheet of the Ads script: a title row and the data rows
  linked,          \* the assets linked to asset groups in the Ads account
  run,             \* what the last run of the Ads script's main did, and the number of runs
  delivered        \* number of published requests the cloud function has served

vars == <<newAssetGroups, newCampaigns, campaignList, assetGroupList,
          property, hasAccess, requests, sidebar, last, assets, validation,
          edit, inputSheet, linked, run, delivered>>

sheetVars == <<newAssetGroups, newCampaigns, campaignList, assetGroupList>>

editVars == <<assets, validation, edit>>

adsVars == <<inputSheet, linked, run>>

----------------------------------------------------------------------------
(* Strings *)

S(x) == <<x>>

EMPTY == <<>>

\* The JavaScript value undefined (a missing enum member, a missing cell).
UNDEFINED == <<"<undefined>">>

\* String(v) as used for an object key: undefined becomes the key 'undefined'.
ToKey(v) == IF v = UNDEFINED THEN S("undefined") ELSE v

Range(s) == {s[i] : i \in DOMAIN s}

----------------------------------------------------------------------------
(* enums.ts *)

SHEET_NAMES ==
  [CUSTOMERS |-> "CustomerList", CAMPAIGNS |-> "CampaignList",
   ASSET_GROUPS |-> "AssetGroupList", ASSETS |-> "Assets",
   SITELINKS |-> "Sitelinks", NEW_CAMPAIGNS |-> "NewCampaigns",
   NEW_ASSET_GROUPS |-> "NewAssetGroups"]

REQUIRED_ASSETS ==
  [HEADLINES |-> 3, LONG_HEADLINES |-> 1, DESCRIPTIONS |-> 2,
   BUSINESS_NAME |-> 1, MARKETING_IMAGE |-> 1, SQUARE_IMAGE |-> 1, LOGO |-> 1]

NEW_ASSET_GROUPS ==
  [STATUS |-> 0, ASSET_CHECK |-> 1, ACCOUNT_NAME |-> 2, CAMPAIGN_NAME |-> 3,
   ASSET_GROUP_NAME |-> 4, ASSET_GROUP_STATUS |-> 5, FINAL_URL |-> 6,
   MOBILE_URL |-> 7, PATH1 |-> 8, PATH2 |-> 9, HEADLINE1 |-> 10,
   HEADLINE2 |-> 11, HEADLINE3 |-> 12, DESCRIPTION1 |-> 13,
   DESCRIPTION2 |-> 14, LONG_HEADLINE |-> 15, BUSINESS_NAME |-> 16,
   MARKETING_IMAGE |-> 17, SQUARE_IMAGE |-> 18, LOGO |-> 19]

NEW_CAMPAIGNS == [STATUS |-> 0, ACCOUNT_NAME |-> 1, CAMPAIGN_NAME |-> 2]

ASSETS ==
  [STATUS |-> 0, DELETE_OPTION |-> 1, ACCOUNT_NAME |-> 2, CAMPAIGN_NAME |-> 3,
   ASSET_GROUP_NAME |-> 4, TYPE |-> 5]

ASSET_GROUP_LIST ==
  [CUSTOMER_NAME |-> 0, CUSTOMER_ID |-> 1, CAMPAIGN_NAME |-> 2,
   CAMPAIGN_ID |-> 3, ASSET_GROUP_NAME |-> 4, ASSET_GROUP_ID |-> 5]

CAMPAIGN_LIST ==
  [CUSTOMER_NAME |-> 0, CUSTOMER_ID |-> 1, CAMPAIGN_NAME |-> 2,
   CAMPAIGN_ID |-> 3]

ROW_STATUS == [UPLOADED |-> S("UPLOADED"), ERROR |-> S("ERROR")]

ASSET_TYPES ==
  [HEADLINE |-> "HEADLINE", LONG_HEADLINE |-> "LONG_HEADLINE",
   DESCRIPTION |-> "DESCRIPTION", BUSINESS |-> "BUSINESS", IMAGE |-> "IMAGE",
   SQUARE_IMAGE |-> "SQUARE_IMAGE", LOGO |-> "LOGO"]

\* The columns of a sheet whose column mapping is the enum.
Columns(enum) == {enum[k] : k \in DOMAIN enum}

\* row[ENUM.MEMBER]: a member the enum does not define is undefined, and
\* indexing a row with undefined yields undefined.
Cell(row, enum, member) ==
  IF member \in DOMAIN enum /\ enum[member] \in DOMAIN row
  THEN row[enum[member]]
  ELSE UNDEFINED

\* The first rows of every tab hold titles and instructions; data starts at
\* (1-based) row 6.
HeaderRows == 5

----------------------------------------------------------------------------
(* changes_tracking.ts: the minimum-asset validator *)

LowerAlpha ==
  {"a","b","c","d","e","f","g","h","i","j","k","l","m",
   "n","o","p","q","r","s","t","u","v","w","x","y","z"}

UpperAlpha ==
  {"A","B","C","D","E","F","G","H","I","J","K","L","M",
   "N","O","P","Q","R","S","T","U","V","W","X","Y","Z"}

Digits == {"0","1","2","3","4","5","6","7","8","9"}

\* \w, as \b uses it
WordChars == LowerAlpha \cup UpperAlpha \cup Digits \cup {"_"}

\* [-a-zA-Z0-9@:%._\+~#=]
UrlHostChars ==
  LowerAlpha \cup UpperAlpha \cup Digits
    \cup {"-", "@", ":", "%", ".", "_", "+", "~", "#", "="}

\* [-a-zA-Z0-9@:%_\+.~#?&//=]
UrlPathChars ==
  LowerAlpha \cup UpperAlpha \cup Digits
    \cup {"-", "@", ":", "%", "_", "+", ".", "~", "#", "?", "&", "/", "="}

UrlPrefix == <<"h", "t", "t", "p", "s", ":", "/", "/">>

\* /^(http(s):\/\/.)[-a-zA-Z0-9@:%._\+~#=]{2,256}\.[a-z]{2,6}\b([...]*)$/
\* on a string given as its sequence of characters.  The (s) is not optional.
isValidURL(str) ==
  LET n == Len(str)
      p == Len(UrlPrefix)
  IN  /\ n >= p + 1
      /\ SubSeq(str, 1, p) = UrlPrefix
      /\ str[p + 1] # "\n"
      /\ \E i \in (p + 3)..n :            \* str[p+2..i] is the {2,256} run
           /\ i - (p + 1) <= 256
           /\ \A k \in (p + 2)..i : str[k] \in UrlHostChars
           /\ i + 1 <= n
           /\ str[i + 1] = "."
           /\ \E j \in (i + 3)..(i + 7) :   \* str[i+2..j] is the [a-z]{2,6} run
                /\ j <= n
                /\ \A k \in (i + 2)..j : str[k] \in LowerAlpha
                /\ (j = n \/ str[j + 1] \notin WordChars)
                /\ \A k \in (j + 1)..n : str[k] \in UrlPathChars

assetCounter(counter, cellValue) ==
  IF cellValue # EMPTY THEN counter + 1 ELSE counter

NoHeadlines ==
  S("\n\tNot enough headlines assigned to the Asset Group (3 required)")

NoLongHeadline ==
  S("\n\tNo long headlines assigned to the Asset Group (1 required)")

NoDescriptions ==
  S("\n\tNot enough descriptions assigned to the Asset Group (2 required)")

NoBusinessName ==
  S("\n\tNo business name assigned to the Asset Group. (1 required)")

NoMarketingImage ==
  S("\n\tNo marketing image assigned to the Asset Group. (1 required)")

NoSquareImage ==
  S("\n\tNo square image assigned to the Asset Group. (1 required)")

NoLogo == S("\n\tNo logo assigned to the Asset Group. (1 required)")

BadMarketingImage == S("\n\tMarketing Image contains an invalid URL")

BadSquareImage == S("\n\tSquare Image contains an invalid URL")

BadLogo == S("\n\tLogo contains an invalid URL")

\* The switch of assetStatus: the messages and the URL check of a type.
AssetTypeCase(assetValue, assetType) ==
  CASE assetType = ASSET_TYPES.HEADLINE ->
         [noValueError |-> NoHeadlines, urlError |-> EMPTY, validURL |-> TRUE]
    [] assetType = ASSET_TYPES.LONG_HEADLINE ->
         [noValueError |-> NoLongHeadline, urlError |-> EMPTY,
          validURL |-> TRUE]
    [] assetType = ASSET_TYPES.DESCRIPTION ->
         [noValueError |-> NoDescriptions, urlError |-> EMPTY,
          validURL |-> TRUE]
    [] assetType = ASSET_TYPES.BUSINESS ->
         [noValueError |-> NoBusinessName, urlError |-> EMPTY,
          validURL |-> TRUE]
    [] assetType = ASSET_TYPES.IMAGE ->
         [noValueError |-> NoMarketingImage, urlError |-> BadMarketingImage,
          validURL |-> isValidURL(assetValue)]
    [] assetType = ASSET_TYPES.SQUARE_IMAGE ->
         [noValueError |-> NoSquareImage, urlError |-> BadSquareImage,
          validURL |-> isValidURL(assetValue)]
    [] assetType = ASSET_TYPES.LOGO ->
         [noValueError |-> NoLogo, urlError |-> BadLogo,
          validURL |-> isValidURL(assetValue)]
    [] OTHER ->
         [noValueError |-> EMPTY, urlError |-> EMPTY, validURL |-> TRUE]

\* assetStatus without the URL check in its last condition.
assetStatus_CountOnly(assetValue, assetCount, assetRequirement, st, assetType) ==
  LET c == AssetTypeCase(assetValue, assetType)
      m1 == IF c.noValueError # EMPTY /\ ~(c.urlError # EMPTY)
            THEN c.noValueError ELSE EMPTY
      m2 == IF ~c.validURL /\ c.urlError # EMPTY /\ assetValue # EMPTY
            THEN c.urlError ELSE EMPTY
      errorMssg == m1 \o m2
  IN  IF assetCount < assetRequirement
      THEN [status |-> FALSE, message |-> st.message \o errorMssg]
      ELSE st

assetStatus(assetValue, assetCount, assetRequirement, st, assetType) ==
  LET c == AssetTypeCase(assetValue, assetType)
      m1 == IF c.noValueError # EMPTY /\ ~(c.urlError # EMPTY)
            THEN c.noValueError ELSE EMPTY
      m2 == IF ~c.validURL /\ c.urlError # EMPTY /\ assetValue # EMPTY
            THEN c.urlError ELSE EMPTY
      errorMssg == m1 \o m2
  IN  IF assetCount < assetRequirement \/ ~c.validURL
      THEN [status |-> FALSE, message |-> st.message \o errorMssg]
      ELSE st

\* The body of the loop of checkMinimumAssets for a row that is validated:
\* the text written to column B.
RowMessage(row) ==
  LET v(member) == Cell(row, NEW_ASSET_GROUPS, member)
      headlineCount ==
        assetCounter(assetCounter(assetCounter(0, v("HEADLINE1")),
                                  v("HEADLINE2")), v("HEADLINE3"))
      descriptionCount ==
        assetCounter(assetCounter(0, v("DESCRIPTION1")), v("DESCRIPTION2"))
      longHeadlineCount == assetCounter(0, v("LONG_HEADLINE"))
      businessCount == assetCounter(0, v("BUSINESS_NAME"))
      imageCount == assetCounter(0, v("MARKETING_IMAGE"))
      squareImageCount == assetCounter(0, v("SQUARE_IMAGE"))
      logoCount == assetCounter(0, v("LOGO"))
      r0 == [message |-> EMPTY, status |-> TRUE]
      r1 == assetStatus(v("HEADLINE1"), headlineCount,
                        REQUIRED_ASSETS.HEADLINES, r0, ASSET_TYPES.HEADLINE)
      r2 == assetStatus(v("LONG_HEADLINE"), longHeadlineCount,
                        REQUIRED_ASSETS.LONG_HEADLINES, r1,
                        ASSET_TYPES.LONG_HEADLINE)
      r3 == assetStatus(v("DESCRIPTION1"), descriptionCount,
                        REQUIRED_ASSETS.DESCRIPTIONS, r2,
                        ASSET_TYPES.DESCRIPTION)
      r4 == assetStatus(v("BUSINESS_NAME"), businessCount,
                        REQUIRED_ASSETS.BUSINESS_NAME, r3,
                        ASSET_TYPES.BUSINESS)
      r5 == assetStatus(v("MARKETING_IMAGE"), imageCount,
                        REQUIRED_ASSETS.MARKETING_IMAGE, r4,
                        ASSET_TYPES.IMAGE)
      r6 == assetStatus(v("SQUARE_IMAGE"), squareImageCount,
                        REQUIRED_ASSETS.SQUARE_IMAGE, r5,
                        ASSET_TYPES.SQUARE_IMAGE)
      r7 == assetStatus(v("LOGO"), logoCount, REQUIRED_ASSETS.LOGO, r6,
                        ASSET_TYPES.LOGO)
  IN  IF ~r7.status
      THEN S("ERROR: Asset requirements are not met:") \o r7.message
      ELSE S("SUCCESS")

\* The guards without the check of the status cell.
RowIsValidated_IgnoresUploaded(id, row) ==
  /\ ~(\/ Cell(row, NEW_ASSET_GROUPS, "ACCOUNT_NAME") = EMPTY
       \/ Cell(row, NEW_ASSET_GROUPS, "CAMPAIGN_NAME") = EMPTY
       \/ Cell(row, NEW_ASSET_GROUPS, "ASSET_GROUP_NAME") = EMPTY)
  /\ ~(id < HeaderRows)

\* The guards with the header test off by one (id < 4).
RowIsValidated_ShortHeader(id, row) ==
  /\ ~(Cell(row, NEW_ASSET_GROUPS, "STATUS") = ROW_STATUS.UPLOADED)
  /\ ~(\/ Cell(row, NEW_ASSET_GROUPS, "ACCOUNT_NAME") = EMPTY
       \/ Cell(row, NEW_ASSET_GROUPS, "CAMPAIGN_NAME") = EMPTY
       \/ Cell(row, NEW_ASSET_GROUPS, "ASSET_GROUP_NAME") = EMPTY)
  /\ ~(id < HeaderRows - 1)

\* The three 'continue' guards of the loop, for the row with 0-based index id.
RowIsValidated(id, row) ==
  /\ ~(Cell(row, NEW_ASSET_GROUPS, "STATUS") = ROW_STATUS.UPLOADED)
  /\ ~(\/ Cell(row, NEW_ASSET_GROUPS, "ACCOUNT_NAME") = EMPTY
       \/ Cell(row, NEW_ASSET_GROUPS, "CAMPAIGN_NAME") = EMPTY
       \/ Cell(row, NEW_ASSET_GROUPS, "ASSET_GROUP_NAME") = EMPTY)
  /\ ~(id < HeaderRows)

\* checkMinimumAssets: the sheet after the run.  Row id is written at sheet
\* row Number(id) + 1, column 2.
checkMinimumAssets(values) ==
  [i \in DOMAIN values |->
     IF RowIsValidated(i - 1, values[i])
     THEN [values[i] EXCEPT ![2 - 1] = RowMessage(values[i])]
     ELSE values[i]]

\* The cells getRange(outputRow, 2).setValue(..) is called on, as 0-based
\* <<row id, column index>> pairs.
CellsWritten(values) ==
  {<<i - 1, 2 - 1>> : i \in {k \in DOMAIN values :
                               RowIsValidated(k - 1, values[k])}}

----------------------------------------------------------------------------
(* sheets_utils.ts: the index kept in the document property *)

\* JSON null: what JSON.stringify stores for an undefined array element.
NULLVALUE == <<"<null>">>

\* The JavaScript object {} ; an object is a function from its keys.
EmptyObject == <<>>

Has(o, k) == k \in DOMAIN o

Put(o, k, v) == [x \in (DOMAIN o) \cup {k} |-> IF x = k THEN v ELSE o[x]]

\* JSON.parse(JSON.stringify(obj)) of a {customer: {campaign: string[]}}
\* object: keys are kept, undefined array elements come back as null.
JsonRoundTrip(obj) ==
  [cu \in DOMAIN obj |->
     [ca \in DOMAIN obj[cu] |->
        [i \in DOMAIN obj[cu][ca] |->
           IF obj[cu][ca][i] = UNDEFINED THEN NULLVALUE ELSE obj[cu][ca][i]]]]

\* The property store holds the JSON text, or nothing.
NoProperty == [set |-> FALSE, val |-> EmptyObject]

getProperty(prop) == IF prop.set THEN prop.val ELSE EmptyObject

setProperty(propertyObject) ==
  [set |-> TRUE, val |-> JsonRoundTrip(propertyObject)]

clearProperty(prop) == NoProperty

\* Row 6 is where actual data starts: getRange('6:' + getMaxRows()).
DataStartRow == 6

DataRows(sheet) == SubSeq(sheet, DataStartRow, Len(sheet))

\* s[customer] = s[customer] || {};
\* s[customer][campaign] = s[customer][campaign] || [];
IndexCampaign(s, customer, campaign) ==
  LET cu == ToKey(customer)
      ca == ToKey(campaign)
      inner == IF Has(s, cu) THEN s[cu] ELSE EmptyObject
      list == IF Has(inner, ca) THEN inner[ca] ELSE <<>>
  IN  Put(s, cu, Put(inner, ca, list))

\* try { s[customer][campaign].push(assetGroup) } catch (error) { log }
IndexAssetGroup(s, customer, campaign, assetGroup) ==
  LET cu == ToKey(customer)
      ca == ToKey(campaign)
  IN  IF Has(s, cu) /\ Has(s[cu], ca)
      THEN Put(s, cu, Put(s[cu], ca, Append(s[cu][ca], assetGroup)))
      ELSE s

\* rows.forEach(row => index the campaign of the row), customer and campaign
\* read at the given members of the sheet's column enum.
IndexCampaignRows(s, rows, enum, customerMember, campaignMember) ==
  LET f[i \in 0..Len(rows)] ==
        IF i = 0 THEN s
        ELSE IndexCampaign(f[i - 1], Cell(rows[i], enum, customerMember),
                           Cell(rows[i], enum, campaignMember))
  IN  f[Len(rows)]

IndexAssetGroupRows(s, rows, enum, customerMember, campaignMember, assetGroupMember) ==
  LET f[i \in 0..Len(rows)] ==
        IF i = 0 THEN s
        ELSE IndexAssetGroup(f[i - 1], Cell(rows[i], enum, customerMember),
                             Cell(rows[i], enum, campaignMember),
                             Cell(rows[i], enum, assetGroupMember))
  IN  f[Len(rows)]

\* updateUploadedValuesIntoProperty (the version with clearProperty): the
\* property stored when it returns.
updateUploadedValuesIntoProperty(prop, campaigns, newCamps, assetGroups, newGroups) ==
  LET s0 == getProperty(clearProperty(prop))
      s1 == IndexCampaignRows(s0, DataRows(campaigns), CAMPAIGN_LIST,
                              "CUSTOMER_NAME", "CAMPAIGN_NAME")
      s2 == IndexCampaignRows(s1, DataRows(newCamps), NEW_CAMPAIGNS,
                              "CUSTOMER_NAME", "CAMPAIGN_NAME")
      s3 == IndexAssetGroupRows(s2, DataRows(assetGroups), ASSET_GROUP_LIST,
                                "CUSTOMER_NAME", "CAMPAIGN_NAME",
                                "ASSET_GROUP_NAME")
      s4 == IndexAssetGroupRows(s3, DataRows(newGroups), NEW_ASSET_GROUPS,
                                "CUSTOMER_NAME", "CAMPAIGN_NAME",
                                "ASSET_GROUP_NAME")
  IN  setProperty(s4)

Rebuilt ==
  updateUploadedValuesIntoProperty(property, campaignList, newCampaigns,
                                   assetGroupList, newAssetGroups)

----------------------------------------------------------------------------
(* sheets_utils.ts: index maintenance on a cell edit *)

\* A JavaScript value used as a condition: undefined and '' are falsy.
Truthy(v) == v # UNDEFINED /\ v # EMPTY

\* The test with <= in place of ===.
ColumnIs_AtMost(column, enum, member) ==
  member \in DOMAIN enum /\ column <= enum[member] + 1

\* column === ENUM.MEMBER + 1: undefined + 1 is NaN, which equals no column.
ColumnIs(column, enum, member) ==
  member \in DOMAIN enum /\ column = enum[member] + 1

\* getCellValueFromRowData(sheet, row, position), position given as a member
\* of the sheet's column enum; row is the 1-based sheet row.
getCellValueFromRowData(sheet, row, enum, member) ==
  Cell(sheet[row], enum, member)

\* array.indexOf(x): the 1-based position of the first x, 0 when absent.
IndexOf(list, x) ==
  IF \E i \in DOMAIN list : list[i] = x
  THEN CHOOSE i \in DOMAIN list :
         list[i] = x /\ \A j \in 1..(i - 1) : list[j] # x
  ELSE 0

\* array.splice(i, 1)
Splice(list, i) == SubSeq(list, 1, i - 1) \o SubSeq(list, i + 1, Len(list))

\* delete obj[k]
Delete(o, k) == [x \in (DOMAIN o) \ {k} |-> o[x]]

\* Two successive writes of the one document property: the later remains.
Then(first, second) == second

\* What a handler leaves: the property stored, and how it ended.
Stored(prop) == [property |-> prop, ret |-> "none"]

\* An uncaught TypeError ends the handler before setProperty.
Thrown(prop) == [property |-> prop, ret |-> "TypeError"]

\* addNewCampaignUserEditsIntoProperty.  The argument rebuilt is the property
\* updateUploadedValuesIntoProperty() stores for the document; the handler
\* then stores the object it read before that call.
addNewCampaignUserEditsIntoProperty(prop, value, oldValue, row, column, numberOfColumnsChanged, numberOfRowsChanged, sheet, rebuilt) ==
  IF ~(column <= NEW_CAMPAIGNS.CAMPAIGN_NAME + 1)
  THEN Stored(prop)
  ELSE
    LET obj == getProperty(prop)
        customer == ToKey(getCellValueFromRowData(sheet, row, NEW_CAMPAIGNS,
                                                  "CUSTOMER_NAME"))
        campaign == getCellValueFromRowData(sheet, row, NEW_CAMPAIGNS,
                                            "CAMPAIGN_NAME")
    IN  IF numberOfColumnsChanged > 1 \/ numberOfRowsChanged > 1
        THEN Stored(Then(rebuilt, setProperty(obj)))
        ELSE IF ColumnIs(column, NEW_CAMPAIGNS, "CUSTOMER_NAME")
        THEN IF campaign # EMPTY
             THEN IF ~Has(obj, ToKey(oldValue))
                  THEN Thrown(prop)
                  ELSE
                    LET o1 == Put(obj, ToKey(oldValue),
                                  Delete(obj[ToKey(oldValue)],
                                         ToKey(campaign)))
                        inner == IF Has(o1, ToKey(value))
                                 THEN o1[ToKey(value)] ELSE EmptyObject
                    IN  Stored(setProperty(
                          Put(o1, ToKey(value),
                              Put(inner, ToKey(campaign), <<>>))))
             ELSE Stored(setProperty(obj))
        ELSE IF ColumnIs(column, NEW_CAMPAIGNS, "CAMPAIGN_NAME")
        THEN IF Truthy(oldValue) /\ ~Has(obj, customer)
             THEN Thrown(prop)
             ELSE
               LET o1 == IF Truthy(oldValue) /\ Has(obj[customer], oldValue)
                         THEN Put(obj, customer,
                                  Delete(obj[customer], oldValue))
                         ELSE obj
                   inner == IF Has(o1, customer) THEN o1[customer]
                            ELSE EmptyObject
               IN  Stored(setProperty(
                     Put(o1, customer, Put(inner, ToKey(value), <<>>))))
        ELSE Stored(setProperty(obj))

\* addNewAssetGroupsUserEditsIntoProperty, with rebuilt as above.
addNewAssetGroupsUserEditsIntoProperty(prop, value, oldValue, row, column, numberOfColumnsChanged, numberOfRowsChanged, sheet, rebuilt) ==
  IF ~(column <= NEW_ASSET_GROUPS.ASSET_GROUP_NAME + 1)
  THEN Stored(prop)
  ELSE
    LET obj == getProperty(prop)
        customer == ToKey(getCellValueFromRowData(sheet, row,
                                                  NEW_ASSET_GROUPS,
                                                  "CUSTOMER_NAME"))
        campaign == ToKey(getCellValueFromRowData(sheet, row,
                                                  NEW_ASSET_GROUPS,
                                                  "CAMPAIGN_NAME"))
        name == getCellValueFromRowData(sheet, row, NEW_ASSET_GROUPS,
                                        "ASSET_GROUP_NAME")
    IN  IF numberOfColumnsChanged > 1 \/ numberOfRowsChanged > 1
        THEN Stored(Then(rebuilt, setProperty(obj)))
        ELSE IF ColumnIs(column, NEW_ASSET_GROUPS, "ASSET_GROUP_NAME")
        THEN IF ~Has(obj, customer)
             THEN Thrown(prop)
             ELSE
               LET old == IF Has(obj[customer], campaign)
                          THEN obj[customer][campaign] ELSE <<>>
                   i == IndexOf(old, oldValue)
                   spliced == IF Truthy(oldValue)
                                   /\ Has(obj[customer], campaign) /\ i # 0
                              THEN Splice(old, i) ELSE old
               IN  Stored(setProperty(
                     Put(obj, customer,
                         Put(obj[customer], campaign,
                             Append(spliced, value)))))
        ELSE IF /\ ColumnIs(column, NEW_ASSET_GROUPS, "CAMPAIGN_NAME")
                /\ Truthy(oldValue)
                /\ name # EMPTY
        THEN IF ~Has(obj, customer)
             THEN Thrown(prop)
             ELSE
               LET to == ToKey(value)
                   from == ToKey(oldValue)
                   o1 == IF Has(obj[customer], to) THEN obj
                         ELSE Put(obj, customer,
                                  Put(obj[customer], to, <<>>))
               IN  IF ~Has(o1[customer], from)
                   THEN Thrown(prop)
                   ELSE
                     LET i == IndexOf(o1[customer][from], name)
                     IN  IF i = 0
                         THEN Stored(setProperty(o1))
                         ELSE
                           LET o2 == Put(o1, customer,
                                         Put(o1[customer], to,
                                             Append(o1[customer][to],
                                                    o1[customer][from][i])))
                           IN  Stored(setProperty(
                                 Put(o2, customer,
                                     Put(o2[customer], from,
                                         Splice(o2[customer][from], i)))))
        ELSE IF /\ ColumnIs(column, NEW_ASSET_GROUPS, "CUSTOMER_NAME")
                /\ Truthy(oldValue)
                /\ name # EMPTY
        THEN IF ~Has(obj, ToKey(value))
             THEN Thrown(prop)
             ELSE
               LET to == ToKey(value)
                   from == ToKey(oldValue)
                   o1 == IF Has(obj[to], campaign) THEN obj
                         ELSE Put(obj, to, Put(obj[to], campaign, <<>>))
               IN  IF ~Has(o1, from) \/ ~Has(o1[from], campaign)
                   THEN Thrown(prop)
                   ELSE
                     LET i == IndexOf(o1[from][campaign], name)
                     IN  IF i = 0
                         THEN Stored(setProperty(o1))
                         ELSE
                           LET o2 == Put(o1, to,
                                         Put(o1[to], campaign,
                                             Append(o1[to][campaign],
                                                    o1[from][campaign][i])))
                           IN  Stored(setProperty(
                                 Put(o2, from,
                                     Put(o2[from], campaign,
                                         Splice(o2[from][campaign], i)))))
        ELSE Stored(setProperty(obj))

----------------------------------------------------------------------------
(* pubsub.ts *)

Base64Alphabet ==
  <<"A","B","C","D","E","F","G","H","I","J","K","L","M",
    "N","O","P","Q","R","S","T","U","V","W","X","Y","Z",
    "a","b","c","d","e","f","g","h","i","j","k","l","m",
    "n","o","p","q","r","s","t","u","v","w","x","y","z",
    "0","1","2","3","4","5","6","7","8","9","+","/">>

\* The characters the menu commands are written in, with their ASCII codes.
CommandChars ==
  <<"A","B","C","D","E","F","G","H","I","J","K","L","M",
    "N","O","P","Q","R","S","T","U","V","W","X","Y","Z">>

Ascii(ch) ==
  IF ch = "_" THEN 95
  ELSE 64 + (CHOOSE i \in DOMAIN CommandChars : CommandChars[i] = ch)

\* Utilities.base64Encode(data), data given as its characters: three bytes
\* become four characters of the alphabet, the last group is padded with '='.
base64Encode(data) ==
  LET n == Len(data)
      byte(k) == IF k <= n THEN Ascii(data[k]) ELSE 0
      quad(g) ==
        LET v == byte(3 * g - 2) * 65536 + byte(3 * g - 1) * 256 + byte(3 * g)
            have == n - 3 * (g - 1)
        IN  <<Base64Alphabet[(v \div 262144) + 1],
              Base64Alphabet[((v \div 4096) % 64) + 1],
              IF have >= 2 THEN Base64Alphabet[((v \div 64) % 64) + 1]
              ELSE "=",
              IF have >= 3 THEN Base64Alphabet[(v % 64) + 1] ELSE "=">>
  IN  [i \in 1..(4 * ((n + 2) \div 3)) |->
         quad(((i - 1) \div 4) + 1)[((i - 1) % 4) + 1]]

\* The request UrlFetchApp.fetch sends.
PublishRequest(project, topic, attr, data) ==
  [url |-> <<"https://pubsub.googleapis.com/v1/projects/", project,
             "/topics/", topic, ":publish">>,
   method |-> "POST",
   messages |-> <<[attributes |-> attr, data |-> base64Encode(data)]>>]

\* pubsub without the early return: the request is sent also when the service
\* has no access.
pubsub_NoReturn(project, topic, attr, data) ==
  IF ~hasAccess
  THEN [requests |-> Append(requests,
                            PublishRequest(project, topic, attr, data)),
        sidebar |-> sidebar + 1, ret |-> "response"]
  ELSE [requests |-> Append(requests,
                            PublishRequest(project, topic, attr, data)),
        sidebar |-> sidebar, ret |-> "response"]

\* pubsub(project, topic, attr, data): what it does to the requests sent and
\* the sidebar, and what it returns.
pubsub(project, topic, attr, data) ==
  IF ~hasAccess
  THEN [requests |-> requests, sidebar |-> sidebar + 1, ret |-> "undefined"]
  ELSE [requests |-> Append(requests,
                            PublishRequest(project, topic, attr, data)),
        sidebar |-> sidebar, ret |-> "response"]

----------------------------------------------------------------------------
(* config.ts *)

\* custom_menu.ts passes the global PROJECT_NAME; config.ts declares the
\* project as PROJECT_ID, and the Config.gs of a deployment carries the value.
PROJECT_NAME == "UPDATE_PROJECT_ID_HERE"

PUBSUB_TOPIC == "UPDATE_PUBSUB_TOPIC_NAME_HERE"

----------------------------------------------------------------------------
(* Bounds *)

\* Data rows of the NewAssetGroups sheet when the validator's inputs are drawn.
MaxDataRows == 2

\* Data rows of each of the four indexed sheets when the index's inputs are
\* drawn.
MaxIndexRows == 1

\* Calls of pubsub (requests sent plus sidebars shown) in one behaviour.
MaxCalls == 2

\* Cell edits by the user in one behaviour.
MaxEdits == 2

\* Data rows of the Ads script's input sheet.
MaxInputRows == 2

\* Runs of the Ads script's main in one behaviour.
MaxRuns == 2

----------------------------------------------------------------------------
(* What the last handler run did *)

Did(op, sheet, column, written, invoked, ret) ==
  [op |-> op, sheet |-> sheet, column |-> column, written |-> written,
   invoked |-> invoked, ret |-> ret]

Nothing == Did("none", "", 0, {}, {}, "none")

----------------------------------------------------------------------------
(* custom_menu.ts *)

onOpen ==
  /\ property' = Rebuilt
  /\ last' = Did("onOpen", "", 0, {}, {"updateUploadedValuesIntoProperty"},
                 "none")
  /\ UNCHANGED <<sheetVars, hasAccess, requests, sidebar, editVars, adsVars, delivered>>

\* const attr = {id: 'madmax', value: 'run_all'}
Attr == [id |-> "madmax", value |-> "run_all"]

\* A menu function: pubsub(PROJECT_NAME, PUBSUB_TOPIC, attr, data), followed
\* in the refresh functions by updateUploadedValuesIntoProperty().
MenuRequest(name, data, rebuild) ==
  /\ Len(requests) + sidebar < MaxCalls
  /\ LET r == pubsub(PROJECT_NAME, PUBSUB_TOPIC, Attr, data)
     IN  /\ requests' = r.requests
         /\ sidebar' = r.sidebar
         /\ last' = Did(name, "", 0, {},
                        IF rebuild
                        THEN {"pubsub", "updateUploadedValuesIntoProperty"}
                        ELSE {"pubsub"},
                        r.ret)
  /\ property' = IF rebuild THEN Rebuilt ELSE property
  /\ UNCHANGED <<sheetVars, hasAccess, editVars, adsVars, delivered>>

pubsubRefreshAllRequest ==
  MenuRequest("pubsubRefreshAllRequest",
              <<"R", "E", "F", "R", "E", "S", "H">>,
              TRUE)

pubsubRefreshCustomersRequest ==
  MenuRequest("pubsubRefreshCustomersRequest",
              <<"R", "E", "F", "R", "E", "S", "H", "_", "C", "U", "S", "T", "O", "M", "E", "R", "_", "L", "I", "S", "T">>,
              TRUE)

pubsubRefreshCampaignsRequest ==
  MenuRequest("pubsubRefreshCampaignsRequest",
              <<"R", "E", "F", "R", "E", "S", "H", "_", "C", "A", "M", "P", "A", "I", "G", "N", "_", "L", "I", "S", "T">>,
              TRUE)

pubsubRefreshAssetGroupsRequest ==
  MenuRequest("pubsubRefreshAssetGroupsRequest",
              <<"R", "E", "F", "R", "E", "S", "H", "_", "A", "S", "S", "E", "T", "_", "G", "R", "O", "U", "P", "_", "L", "I", "S", "T">>,
              TRUE)

\* The Assets refresh with the command of 'Refresh all sheets'.
pubsubRefreshAssetsRequest_WrongCommand ==
  MenuRequest("pubsubRefreshAssetsRequest",
              <<"R", "E", "F", "R", "E", "S", "H">>,
              TRUE)

pubsubRefreshAssetsRequest ==
  MenuRequest("pubsubRefreshAssetsRequest",
              <<"R", "E", "F", "R", "E", "S", "H", "_", "A", "S", "S", "E", "T", "S">>,
              TRUE)

pubsubRefreshSitelinksRequest ==
  MenuRequest("pubsubRefreshSitelinksRequest",
              <<"R", "E", "F", "R", "E", "S", "H", "_", "S", "I", "T", "E", "L", "I", "N", "K", "S">>,
              TRUE)

\* The upload followed by the index rebuild, as in the refresh functions.
pubsubUploadRequest_Rebuilds ==
  MenuRequest("pubsubUploadRequest",
              <<"U", "P", "L", "O", "A", "D">>,
              TRUE)

pubsubUploadRequest ==
  MenuRequest("pubsubUploadRequest",
              <<"U", "P", "L", "O", "A", "D">>,
              FALSE)

pubsubDeleteRequest ==
  MenuRequest("pubsubDeleteRequest",
              <<"D", "E", "L", "E", "T", "E">>,
              FALSE)

----------------------------------------------------------------------------
(* service.ts *)

\* authCallback: service.handleCallback(request) stores a token when the user
\* granted access.
authCallback ==
  /\ \E isAuthorized \in BOOLEAN :
       hasAccess' = IF isAuthorized THEN TRUE ELSE hasAccess
  /\ last' = Did("authCallback", "", 0, {}, {}, "none")
  /\ UNCHANGED <<sheetVars, property, requests, sidebar, editVars, adsVars, delivered>>

\* reset: service.reset() drops the token.
reset ==
  /\ hasAccess' = FALSE
  /\ last' = Did("reset", "", 0, {}, {}, "none")
  /\ UNCHANGED <<sheetVars, property, requests, sidebar, editVars, adsVars, delivered>>

----------------------------------------------------------------------------
(* changes_tracking.ts: the cell-edit handler *)

SheetNameSet == {SHEET_NAMES[k] : k \in DOMAIN SHEET_NAMES}

\* The (1-based) columns an edit event names: the last name column of
\* NewCampaigns, the last name column of NewAssetGroups and Assets, and the
\* first column to their right.
EditColumns ==
  {NEW_CAMPAIGNS.CAMPAIGN_NAME + 1, NEW_ASSET_GROUPS.ASSET_GROUP_NAME + 1,
   ASSETS.TYPE + 1}

\* The edit event: e.range's sheet, first column, first row, number of rows.
Events ==
  [sheetName : SheetNameSet, column : EditColumns, row : {DataStartRow},
   numRows : {1}]

onEdit(e) ==
  LET validate == e.sheetName = SHEET_NAMES.NEW_ASSET_GROUPS
  IN  /\ newAssetGroups' =
           IF validate THEN checkMinimumAssets(newAssetGroups)
           ELSE newAssetGroups
      /\ last' = Did("onEdit", e.sheetName, e.column,
                     IF validate THEN CellsWritten(newAssetGroups) ELSE {},
                     IF validate THEN {"checkMinimumAssets"} ELSE {},
                     "none")
      /\ UNCHANGED <<newCampaigns, campaignList, assetGroupList, property,
                     hasAccess, requests, sidebar, editVars, adsVars, delivered>>

----------------------------------------------------------------------------
(* A cell edit handed to the index-maintenance handlers *)

\* The cell at (1-based) row and column, when the model holds that column.
SetCell(sheet, row, column, v) ==
  IF row \in DOMAIN sheet /\ (column - 1) \in DOMAIN sheet[row]
  THEN [sheet EXCEPT ![row][column - 1] = v]
  ELSE sheet

GetCell(sheet, row, column) ==
  IF row \in DOMAIN sheet /\ (column - 1) \in DOMAIN sheet[row]
  THEN sheet[row][column - 1]
  ELSE EMPTY

\* e.value and e.oldValue of a single-cell edit: undefined for an empty cell.
EventValue(cell) == IF cell = EMPTY THEN UNDEFINED ELSE cell

EditEvent(row, column, numRows, numColumns, value, oldValue) ==
  [count |-> edit.count + 1, row |-> row, column |-> column,
   numRows |-> numRows, numColumns |-> numColumns, value |-> value,
   oldValue |-> oldValue]

\* The values a user types into a column of NewCampaigns / NewAssetGroups.
Accounts == {S("A"), S("B")}

Campaigns == {S("C"), S("D"), S("E")}

AssetGroups == {S("G"), S("H")}

NewCampaignsValues(column) ==
  CASE column = NEW_CAMPAIGNS.ACCOUNT_NAME + 1 -> Accounts
    [] column = NEW_CAMPAIGNS.CAMPAIGN_NAME + 1 -> Campaigns
    [] OTHER -> {S("x")}

NewAssetGroupsValues(column) ==
  CASE column = NEW_ASSET_GROUPS.ACCOUNT_NAME + 1 -> Accounts
    [] column = NEW_ASSET_GROUPS.CAMPAIGN_NAME + 1 -> Campaigns
    [] column = NEW_ASSET_GROUPS.ASSET_GROUP_NAME + 1 -> AssetGroups
    [] OTHER -> {S("x")}

DataRowIds(sheet) == DataStartRow..Len(sheet)

\* The user types value into one cell of NewCampaigns; the handler is called
\* with the event's value, oldValue and range.
EditNewCampaigns(row, column, value) ==
  /\ edit.count < MaxEdits
  /\ GetCell(newCampaigns, row, column) # value
  /\ newCampaigns' = SetCell(newCampaigns, row, column, value)
  /\ LET oldValue == EventValue(GetCell(newCampaigns, row, column))
         r == addNewCampaignUserEditsIntoProperty(
                property, value, oldValue, row, column, 1, 1, newCampaigns',
                updateUploadedValuesIntoProperty(
                  property, campaignList, newCampaigns', assetGroupList,
                  newAssetGroups))
     IN  /\ property' = r.property
         /\ last' = Did("addNewCampaignUserEditsIntoProperty",
                        SHEET_NAMES.NEW_CAMPAIGNS, column, {}, {}, r.ret)
         /\ edit' = EditEvent(row, column, 1, 1, value, oldValue)
  /\ UNCHANGED <<newAssetGroups, campaignList, assetGroupList, hasAccess,
                 requests, sidebar, assets, validation, adsVars, delivered>>

\* The user pastes account and campaign over a row of NewCampaigns (two
\* columns), or one campaign name over all data rows (several rows).
PasteNewCampaigns(row, numRows, account, campaign) ==
  /\ edit.count < MaxEdits
  /\ LET column == IF numRows = 1 THEN NEW_CAMPAIGNS.ACCOUNT_NAME + 1
                   ELSE NEW_CAMPAIGNS.CAMPAIGN_NAME + 1
         numColumns == IF numRows = 1 THEN 2 ELSE 1
     IN  /\ newCampaigns' =
              [i \in DOMAIN newCampaigns |->
                 IF i \in row..(row + numRows - 1)
                 THEN [newCampaigns[i] EXCEPT
                         ![NEW_CAMPAIGNS.ACCOUNT_NAME] =
                           IF numRows = 1 THEN account ELSE @,
                         ![NEW_CAMPAIGNS.CAMPAIGN_NAME] = campaign]
                 ELSE newCampaigns[i]]
         /\ LET r == addNewCampaignUserEditsIntoProperty(
                       property, UNDEFINED, UNDEFINED, row, column,
                       numColumns, numRows, newCampaigns',
                       updateUploadedValuesIntoProperty(
                         property, campaignList, newCampaigns',
                         assetGroupList, newAssetGroups))
            IN  /\ property' = r.property
                /\ last' = Did("addNewCampaignUserEditsIntoProperty",
                               SHEET_NAMES.NEW_CAMPAIGNS, column, {},
                               {"updateUploadedValuesIntoProperty"}, r.ret)
         /\ edit' = EditEvent(row, column, numRows, numColumns, UNDEFINED,
                              UNDEFINED)
  /\ UNCHANGED <<newAssetGroups, campaignList, assetGroupList, hasAccess,
                 requests, sidebar, assets, validation, adsVars, delivered>>

\* The user types value into one cell of NewAssetGroups.
EditNewAssetGroups(row, column, value) ==
  /\ edit.count < MaxEdits
  /\ GetCell(newAssetGroups, row, column) # value
  /\ newAssetGroups' = SetCell(newAssetGroups, row, column, value)
  /\ LET oldValue == EventValue(GetCell(newAssetGroups, row, column))
         r == addNewAssetGroupsUserEditsIntoProperty(
                property, value, oldValue, row, column, 1, 1,
                newAssetGroups',
                updateUploadedValuesIntoProperty(
                  property, campaignList, newCampaigns, assetGroupList,
                  newAssetGroups'))
     IN  /\ property' = r.property
         /\ last' = Did("addNewAssetGroupsUserEditsIntoProperty",
                        SHEET_NAMES.NEW_ASSET_GROUPS, column, {}, {}, r.ret)
         /\ edit' = EditEvent(row, column, 1, 1, value, oldValue)
  /\ UNCHANGED <<newCampaigns, campaignList, assetGroupList, hasAccess,
                 requests, sidebar, assets, validation, adsVars, delivered>>

\* The user pastes campaign and asset-group name over a row of
\* NewAssetGroups (two columns), or one asset-group name over all data rows.
PasteNewAssetGroups(row, numRows, campaign, name) ==
  /\ edit.count < MaxEdits
  /\ LET column == IF numRows = 1 THEN NEW_ASSET_GROUPS.CAMPAIGN_NAME + 1
                   ELSE NEW_ASSET_GROUPS.ASSET_GROUP_NAME + 1
         numColumns == IF numRows = 1 THEN 2 ELSE 1
     IN  /\ newAssetGroups' =
              [i \in DOMAIN newAssetGroups |->
                 IF i \in row..(row + numRows - 1)
                 THEN [newAssetGroups[i] EXCEPT
                         ![NEW_ASSET_GROUPS.CAMPAIGN_NAME] =
                           IF numRows = 1 THEN campaign ELSE @,
                         ![NEW_ASSET_GROUPS.ASSET_GROUP_NAME] = name]
                 ELSE newAssetGroups[i]]
         /\ LET r == addNewAssetGroupsUserEditsIntoProperty(
                       property, UNDEFINED, UNDEFINED, row, column,
                       numColumns, numRows, newAssetGroups',
                       updateUploadedValuesIntoProperty(
                         property, campaignList, newCampaigns,
                         assetGroupList, newAssetGroups'))
            IN  /\ property' = r.property
                /\ last' = Did("addNewAssetGroupsUserEditsIntoProperty",
                               SHEET_NAMES.NEW_ASSET_GROUPS, column, {},
                               {"updateUploadedValuesIntoProperty"}, r.ret)
         /\ edit' = EditEvent(row, column, numRows, numColumns, UNDEFINED,
                              UNDEFINED)
  /\ UNCHANGED <<newCampaigns, campaignList, assetGroupList, hasAccess,
                 requests, sidebar, assets, validation, adsVars, delivered>>

----------------------------------------------------------------------------
(* data_validation.ts: the dropdowns *)

\* range.setDataValidation(requireValueInList(values)): the rule of the cell
\* at (sheet, row, column) becomes the set of values.
SetRule(rules, sheetName, row, column, values) ==
  Put(rules, <<sheetName, row, column>>, values)

\* What a validation run leaves: the rules, how it ended, and the cells whose
\* rule it set.
Validated(rules, ret, cells) ==
  [validation |-> rules, ret |-> ret, cells |-> cells]

\* assetGroupDataValidation(spreadSheet, column, row, numRows).  The recursive
\* call names the variable sheetName, which the function does not declare:
\* evaluating its arguments throws a ReferenceError, after the rule of the
\* first row is set.
assetGroupDataValidation(rules, prop, sheet, column, row, numRows) ==
  IF ~(column <= NEW_ASSET_GROUPS.ASSET_GROUP_NAME + 1)
  THEN Validated(rules, "none", {})
  ELSE
    LET accountCell == GetCell(sheet, row, NEW_ASSET_GROUPS.ACCOUNT_NAME + 1)
        userEditedCampaignsValues == getProperty(prop)
    IN  IF ~Has(userEditedCampaignsValues, ToKey(accountCell))
        THEN Validated(rules, "TypeError", {})
        ELSE
          LET dropdownArray ==
                DOMAIN userEditedCampaignsValues[ToKey(accountCell)]
              set == SetRule(rules, SHEET_NAMES.NEW_ASSET_GROUPS, row,
                             NEW_ASSET_GROUPS.CAMPAIGN_NAME + 1,
                             dropdownArray)
              cell == <<row, NEW_ASSET_GROUPS.CAMPAIGN_NAME + 1>>
          IN  IF numRows > 1
              THEN Validated(set, "ReferenceError", {cell})
              ELSE Validated(set, "none", {cell})

\* assetDataValidation(spreadSheet, column, row, numRows).  rejectsUndefined
\* is what requireValueInList does when the list is undefined (a campaign
\* the index does not hold): it throws, or it builds a rule without values.
RECURSIVE assetDataValidation(_, _, _, _, _, _, _)
assetDataValidation(rules, prop, sheet, column, row, numRows, rejectsUndefined) ==
  IF ~(column <= ASSETS.ASSET_GROUP_NAME + 1)
  THEN Validated(rules, "none", {})
  ELSE
    LET userEditedProperty == getProperty(prop)
        customer == ToKey(GetCell(sheet, row, ASSETS.ACCOUNT_NAME + 1))
        campaign == ToKey(GetCell(sheet, row, ASSETS.CAMPAIGN_NAME + 1))
        forCampaigns == ColumnIs(column, ASSETS, "ACCOUNT_NAME")
        forAssetGroups == ColumnIs(column, ASSETS, "CAMPAIGN_NAME")
    IN  IF (forCampaigns \/ forAssetGroups)
             /\ ~Has(userEditedProperty, customer)
        THEN Validated(rules, "TypeError", {})
        ELSE IF /\ forAssetGroups
                /\ ~Has(userEditedProperty[customer], campaign)
                /\ rejectsUndefined
        THEN Validated(rules, "Exception", {})
        ELSE
          LET r1 == IF forCampaigns
                    THEN SetRule(rules, SHEET_NAMES.ASSETS, row,
                                 ASSETS.CAMPAIGN_NAME + 1,
                                 DOMAIN userEditedProperty[customer])
                    ELSE rules
              r2 == IF forAssetGroups
                    THEN SetRule(r1, SHEET_NAMES.ASSETS, row,
                                 ASSETS.ASSET_GROUP_NAME + 1,
                                 IF Has(userEditedProperty[customer],
                                        campaign)
                                 THEN Range(userEditedProperty[customer]
                                                              [campaign])
                                 ELSE {})
                    ELSE r1
              cells == (IF forCampaigns
                        THEN {<<row, ASSETS.CAMPAIGN_NAME + 1>>} ELSE {})
                         \cup
                       (IF forAssetGroups
                        THEN {<<row, ASSETS.ASSET_GROUP_NAME + 1>>} ELSE {})
          IN  IF numRows > 1
              THEN LET rest == assetDataValidation(r2, prop, sheet, column,
                                                   row + 1, numRows - 1,
                                                   rejectsUndefined)
                   IN  Validated(rest.validation, rest.ret,
                                 cells \cup rest.cells)
              ELSE Validated(r2, "none", cells)

----------------------------------------------------------------------------
(* A cell edit handed to the dropdown validation *)

\* The edits of a sheet: a first row and a number of rows within the data.
EditRanges(sheet) ==
  {rg \in DataRowIds(sheet) \X (1..(Len(sheet) - DataStartRow + 1)) :
     rg[1] + rg[2] - 1 <= Len(sheet)}

\* assetGroupDataValidation is called on an edit of NewAssetGroups.
ValidateNewAssetGroups(column, row, numRows) ==
  /\ edit.count < MaxEdits
  /\ LET r == assetGroupDataValidation(validation, property, newAssetGroups,
                                       column, row, numRows)
     IN  /\ validation' = r.validation
         /\ last' = Did("assetGroupDataValidation",
                        SHEET_NAMES.NEW_ASSET_GROUPS, column, r.cells, {},
                        r.ret)
  /\ edit' = EditEvent(row, column, numRows, 1, UNDEFINED, UNDEFINED)
  /\ UNCHANGED <<sheetVars, property, hasAccess, requests, sidebar, assets, adsVars, delivered>>

\* assetDataValidation is called on an edit of Assets.
ValidateAssets(column, row, numRows, rejectsUndefined) ==
  /\ edit.count < MaxEdits
  /\ LET r == assetDataValidation(validation, property, assets, column, row,
                                  numRows, rejectsUndefined)
     IN  /\ validation' = r.validation
         /\ last' = Did("assetDataValidation", SHEET_NAMES.ASSETS, column,
                        r.cells, {}, r.ret)
  /\ edit' = EditEvent(row, column, numRows, 1, UNDEFINED, UNDEFINED)
  /\ UNCHANGED <<sheetVars, property, hasAccess, requests, sidebar, assets, adsVars, delivered>>

----------------------------------------------------------------------------
(* Sheet contents *)

BlankRow(enum) == [c \in Columns(enum) |-> EMPTY]

TitleRow(enum) == [c \in Columns(enum) |-> S("title")]

\* The rows above the data: a banner row, blank rows, the column titles.
Header(enum) ==
  [i \in 1..(DataStartRow - 1) |->
     IF i = 1 \/ i = DataStartRow - 1 THEN TitleRow(enum) ELSE BlankRow(enum)]

TextColumns ==
  {NEW_ASSET_GROUPS.HEADLINE1, NEW_ASSET_GROUPS.HEADLINE2,
   NEW_ASSET_GROUPS.HEADLINE3, NEW_ASSET_GROUPS.DESCRIPTION1,
   NEW_ASSET_GROUPS.DESCRIPTION2, NEW_ASSET_GROUPS.LONG_HEADLINE,
   NEW_ASSET_GROUPS.BUSINESS_NAME}

ImageColumns ==
  {NEW_ASSET_GROUPS.MARKETING_IMAGE, NEW_ASSET_GROUPS.SQUARE_IMAGE,
   NEW_ASSET_GROUPS.LOGO}

NagRow(status, check, account, campaign, name, texts, images) ==
  [c \in Columns(NEW_ASSET_GROUPS) |->
     CASE c = NEW_ASSET_GROUPS.STATUS -> status
       [] c = NEW_ASSET_GROUPS.ASSET_CHECK -> check
       [] c = NEW_ASSET_GROUPS.ACCOUNT_NAME -> account
       [] c = NEW_ASSET_GROUPS.CAMPAIGN_NAME -> campaign
       [] c = NEW_ASSET_GROUPS.ASSET_GROUP_NAME -> name
       [] c \in TextColumns -> texts[c]
       [] c \in ImageColumns -> images[c]
       [] OTHER -> EMPTY]

NewCampRow(account, campaign) ==
  [c \in Columns(NEW_CAMPAIGNS) |->
     CASE c = NEW_CAMPAIGNS.ACCOUNT_NAME -> account
       [] c = NEW_CAMPAIGNS.CAMPAIGN_NAME -> campaign
       [] OTHER -> EMPTY]

CampRow(customer, campaign) ==
  [c \in Columns(CAMPAIGN_LIST) |->
     CASE c = CAMPAIGN_LIST.CUSTOMER_NAME -> customer
       [] c = CAMPAIGN_LIST.CAMPAIGN_NAME -> campaign
       [] OTHER -> S("id")]

AgRow(customer, campaign, name) ==
  [c \in Columns(ASSET_GROUP_LIST) |->
     CASE c = ASSET_GROUP_LIST.CUSTOMER_NAME -> customer
       [] c = ASSET_GROUP_LIST.CAMPAIGN_NAME -> campaign
       [] c = ASSET_GROUP_LIST.ASSET_GROUP_NAME -> name
       [] OTHER -> S("id")]

HttpsUrl == <<"h", "t", "t", "p", "s", ":", "/", "/", "a", "b", "c", ".", "c", "o">>

HttpUrl == <<"h", "t", "t", "p", ":", "/", "/", "a", "b", "c", ".", "c", "o">>

TextValues == {EMPTY, S("text")}

ImageValues == {EMPTY, HttpUrl, HttpsUrl}

NoTexts == [c \in TextColumns |-> EMPTY]

NoImages == [c \in ImageColumns |-> EMPTY]

AllTexts == [c \in TextColumns |-> S("text")]

AllImages == [c \in ImageColumns |-> HttpsUrl]

\* The cells of the row the validator's claims are about.  A row that passes
\* the guards (named, not uploaded) takes every combination of its asset
\* cells; every combination of status and names is taken with each of the
\* asset profiles.
AssetProfiles ==
  {[tx |-> tx, im |-> im] : tx \in {NoTexts, AllTexts},
                            im \in {NoImages, AllImages}}

FocusCells ==
  {[st |-> st, ac |-> S("A"), ca |-> S("C"), na |-> S("G"), tx |-> tx,
    im |-> im] :
     st \in {EMPTY, ROW_STATUS.ERROR}, tx \in [TextColumns -> TextValues],
     im \in [ImageColumns -> ImageValues]}
  \cup
  {[st |-> st, ac |-> ac, ca |-> ca, na |-> na, tx |-> pr.tx, im |-> pr.im] :
     st \in {EMPTY, ROW_STATUS.UPLOADED, ROW_STATUS.ERROR},
     ac \in {EMPTY, S("A")}, ca \in {EMPTY, S("C")}, na \in {EMPTY, S("G")},
     pr \in AssetProfiles}

\* The rows around it: an uploaded row with missing assets, a complete row.
FillerRows ==
  {NagRow(ROW_STATUS.UPLOADED, S("SUCCESS"), S("A"), S("C"), S("G"),
          NoTexts, NoImages),
   NagRow(EMPTY, EMPTY, S("A"), S("C"), S("H"), AllTexts, AllImages)}

CampaignListRows == {BlankRow(CAMPAIGN_LIST), CampRow(S("A"), S("C")),
                     CampRow(S("B"), S("D"))}

NewCampaignRows == {BlankRow(NEW_CAMPAIGNS), NewCampRow(S("A"), S("C")),
                    NewCampRow(S("A"), S("D")), NewCampRow(S("B"), S("C"))}

AssetGroupListRows ==
  {BlankRow(ASSET_GROUP_LIST), AgRow(S("A"), S("C"), S("G")),
   AgRow(S("B"), S("D"), S("G")), AgRow(S("B"), S("C"), S("H"))}

NamedNagRow(account, campaign, name) ==
  NagRow(EMPTY, EMPTY, account, campaign, name, NoTexts, NoImages)

NewAssetGroupRows ==
  {BlankRow(NEW_ASSET_GROUPS), NamedNagRow(S("A"), S("C"), S("G")),
   NamedNagRow(S("A"), S("D"), S("H")), NamedNagRow(S("B"), S("C"), S("G"))}

\* What the property may hold before a rebuild: nothing, or an index left by
\* earlier sheet contents.
PriorProperties ==
  {NoProperty,
   setProperty(IndexAssetGroup(IndexCampaign(EmptyObject, S("Z"), S("Old")),
                               S("Z"), S("Old"), S("X"))),
   setProperty(IndexAssetGroup(IndexCampaign(EmptyObject, S("A"), S("C")),
                               S("A"), S("C"), S("G")))}

\* No cell has a data-validation rule.
NoRules == <<>>

\* No edit was made yet.
\* No Ads script input sheet in the document at hand, and no run of the script.
NoInputSheet == <<>>

NoRun ==
  [count |-> 0, preview |-> FALSE, values |-> <<>>, added |-> {},
   removed |-> {}, written |-> {}, ret |-> "none",
   config |-> [includeVideo |-> FALSE, removeExistingVideo |-> FALSE,
               removeExistingImages |-> FALSE]]

NoEdit ==
  [count |-> 0, row |-> 0, column |-> 0, numRows |-> 0, numColumns |-> 0,
   value |-> UNDEFINED, oldValue |-> UNDEFINED]

----------------------------------------------------------------------------
(* Specifications *)

\* The program: a new document with the template's sheets filled in, every
\* handler and menu function.
Init ==
  /\ newAssetGroups = Header(NEW_ASSET_GROUPS) \o
       <<NagRow(EMPTY, EMPTY, S("A"), S("C"), S("G"), AllTexts, NoImages),
         NagRow(ROW_STATUS.UPLOADED, S("SUCCESS"), S("A"), S("D"), S("H"),
                NoTexts, NoImages)>>
  /\ newCampaigns = Header(NEW_CAMPAIGNS) \o
       <<NewCampRow(S("A"), S("C")), NewCampRow(S("A"), S("D"))>>
  /\ campaignList = Header(CAMPAIGN_LIST) \o <<CampRow(S("B"), S("D"))>>
  /\ assetGroupList = Header(ASSET_GROUP_LIST) \o
       <<AgRow(S("B"), S("D"), S("G"))>>
  /\ property = NoProperty
  /\ hasAccess = FALSE
  /\ requests = <<>>
  /\ sidebar = 0
  /\ last = Nothing
  /\ assets = Header(ASSETS)
  /\ validation = NoRules
  /\ edit = NoEdit
  /\ inputSheet = NoInputSheet
  /\ linked = {}
  /\ run = NoRun
  /\ delivered = 0

Next ==
  \/ onOpen
  \/ pubsubRefreshAllRequest
  \/ pubsubRefreshCustomersRequest
  \/ pubsubRefreshCampaignsRequest
  \/ pubsubRefreshAssetGroupsRequest
  \/ pubsubRefreshAssetsRequest
  \/ pubsubRefreshSitelinksRequest
  \/ pubsubUploadRequest
  \/ pubsubDeleteRequest
  \/ authCallback
  \/ reset
  \/ \E e \in Events : onEdit(e)

Spec == Init /\ [][Next]_vars

\* The validator on drawn contents of the NewAssetGroups sheet: one data row
\* takes every combination of its cells, at every position, among rows that
\* are uploaded or complete.
InitAssets ==
  /\ \E k \in 1..MaxDataRows, fill \in [1..MaxDataRows -> FillerRows],
        focus \in FocusCells :
       newAssetGroups =
         Header(NEW_ASSET_GROUPS) \o
           [i \in 1..MaxDataRows |->
              IF i = k
              THEN NagRow(focus.st, EMPTY, focus.ac, focus.ca, focus.na,
                          focus.tx, focus.im)
              ELSE fill[i]]
  /\ newCampaigns = Header(NEW_CAMPAIGNS)
  /\ campaignList = Header(CAMPAIGN_LIST)
  /\ assetGroupList = Header(ASSET_GROUP_LIST)
  /\ property = NoProperty
  /\ hasAccess = FALSE
  /\ requests = <<>>
  /\ sidebar = 0
  /\ last = Nothing
  /\ assets = Header(ASSETS)
  /\ validation = NoRules
  /\ edit = NoEdit
  /\ inputSheet = NoInputSheet
  /\ linked = {}
  /\ run = NoRun
  /\ delivered = 0

AssetEvents ==
  {e \in Events : /\ e.sheetName = SHEET_NAMES.NEW_ASSET_GROUPS
                  /\ e.column = NEW_ASSET_GROUPS.ASSET_GROUP_NAME + 1}

NextAssets == \E e \in AssetEvents : onEdit(e)

SpecAssets == InitAssets /\ [][NextAssets]_vars

\* The index rebuild on drawn contents of the four indexed sheets and of the
\* property.
InitIndex ==
  /\ newAssetGroups \in {Header(NEW_ASSET_GROUPS) \o rows :
                           rows \in [1..MaxIndexRows -> NewAssetGroupRows]}
  /\ newCampaigns \in {Header(NEW_CAMPAIGNS) \o rows :
                         rows \in [1..MaxIndexRows -> NewCampaignRows]}
  /\ campaignList \in {Header(CAMPAIGN_LIST) \o rows :
                         rows \in [1..MaxIndexRows -> CampaignListRows]}
  /\ assetGroupList \in {Header(ASSET_GROUP_LIST) \o rows :
                           rows \in [1..MaxIndexRows -> AssetGroupListRows]}
  /\ property \in PriorProperties
  /\ hasAccess = FALSE
  /\ requests = <<>>
  /\ sidebar = 0
  /\ last = Nothing
  /\ assets = Header(ASSETS)
  /\ validation = NoRules
  /\ edit = NoEdit
  /\ inputSheet = NoInputSheet
  /\ linked = {}
  /\ run = NoRun
  /\ delivered = 0

NextIndex == onOpen

SpecIndex == InitIndex /\ [][NextIndex]_vars

\* Index maintenance: a document with uploaded and new campaigns and asset
\* groups, opened or not yet opened, and the user's edits of the two 'New'
\* sheets.
InitEdits ==
  /\ newAssetGroups = Header(NEW_ASSET_GROUPS) \o
       <<NamedNagRow(S("A"), S("C"), S("H")), BlankRow(NEW_ASSET_GROUPS)>>
  /\ newCampaigns = Header(NEW_CAMPAIGNS) \o
       <<NewCampRow(S("A"), S("E")), BlankRow(NEW_CAMPAIGNS)>>
  /\ campaignList = Header(CAMPAIGN_LIST) \o
       <<CampRow(S("A"), S("C")), CampRow(S("B"), S("D"))>>
  /\ assetGroupList = Header(ASSET_GROUP_LIST) \o
       <<AgRow(S("A"), S("C"), S("G"))>>
  /\ property = NoProperty
  /\ hasAccess = FALSE
  /\ requests = <<>>
  /\ sidebar = 0
  /\ last = Nothing
  /\ assets = Header(ASSETS)
  /\ validation = NoRules
  /\ edit = NoEdit
  /\ inputSheet = NoInputSheet
  /\ linked = {}
  /\ run = NoRun
  /\ delivered = 0

NextEdits ==
  \/ onOpen
  \/ \E row \in DataRowIds(newCampaigns),
        column \in 1..(NEW_CAMPAIGNS.CAMPAIGN_NAME + 2) :
       \E value \in NewCampaignsValues(column) :
         EditNewCampaigns(row, column, value)
  \/ \E row \in DataRowIds(newCampaigns) :
       PasteNewCampaigns(row, 1, S("B"), S("D"))
  \/ PasteNewCampaigns(DataStartRow, Len(newCampaigns) - DataStartRow + 1,
                       EMPTY, S("D"))
  \/ \E row \in DataRowIds(newAssetGroups),
        column \in 1..(NEW_ASSET_GROUPS.ASSET_GROUP_NAME + 2) :
       \E value \in NewAssetGroupsValues(column) :
         EditNewAssetGroups(row, column, value)
  \/ \E row \in DataRowIds(newAssetGroups) :
       PasteNewAssetGroups(row, 1, S("D"), S("G"))
  \/ PasteNewAssetGroups(DataStartRow,
                         Len(newAssetGroups) - DataStartRow + 1,
                         EMPTY, S("G"))

SpecEdits == InitEdits /\ [][NextEdits]_vars

\* A row of the Assets sheet.
AssetRow(account, campaign, name) ==
  [c \in Columns(ASSETS) |->
     CASE c = ASSETS.ACCOUNT_NAME -> account
       [] c = ASSETS.CAMPAIGN_NAME -> campaign
       [] c = ASSETS.ASSET_GROUP_NAME -> name
       [] OTHER -> EMPTY]

\* Dropdown validation: an opened document whose index holds customers A
\* (campaigns C, D) and B (campaign D); the edited rows name an indexed
\* account, or the customer Z, which has no campaign yet.
InitValidation ==
  /\ \E a1 \in {S("A"), S("B"), S("Z")}, a2 \in {S("A"), S("Z")} :
       newAssetGroups = Header(NEW_ASSET_GROUPS) \o
         <<NamedNagRow(a1, S("C"), S("K")), NamedNagRow(a2, S("D"), S("L"))>>
  /\ \E a1 \in {S("A"), S("B"), S("Z")} :
       assets = Header(ASSETS) \o
         <<AssetRow(a1, S("C"), EMPTY), AssetRow(S("B"), S("D"), EMPTY)>>
  /\ newCampaigns = Header(NEW_CAMPAIGNS) \o <<BlankRow(NEW_CAMPAIGNS)>>
  /\ campaignList = Header(CAMPAIGN_LIST) \o
       <<CampRow(S("A"), S("C")), CampRow(S("A"), S("D")),
         CampRow(S("B"), S("D"))>>
  /\ assetGroupList = Header(ASSET_GROUP_LIST) \o
       <<AgRow(S("A"), S("C"), S("G")), AgRow(S("A"), S("C"), S("H")),
         AgRow(S("B"), S("D"), S("G"))>>
  /\ property = updateUploadedValuesIntoProperty(
                  NoProperty, campaignList, newCampaigns, assetGroupList,
                  newAssetGroups)
  /\ hasAccess = FALSE
  /\ requests = <<>>
  /\ sidebar = 0
  /\ last = Nothing
  /\ validation = NoRules
  /\ edit = NoEdit
  /\ inputSheet = NoInputSheet
  /\ linked = {}
  /\ run = NoRun
  /\ delivered = 0

NextValidation ==
  \/ \E column \in (NEW_ASSET_GROUPS.ACCOUNT_NAME + 1)
                       ..(NEW_ASSET_GROUPS.ASSET_GROUP_NAME + 2),
        rg \in EditRanges(newAssetGroups) :
       ValidateNewAssetGroups(column, rg[1], rg[2])
  \/ \E column \in (ASSETS.ACCOUNT_NAME + 1)..(ASSETS.ASSET_GROUP_NAME + 2),
        rg \in EditRanges(assets), rejectsUndefined \in BOOLEAN :
       ValidateAssets(column, rg[1], rg[2], rejectsUndefined)

SpecValidation == InitValidation /\ [][NextValidation]_vars

----------------------------------------------------------------------------
(* The cloud function behind the refresh commands *)

\* The campaigns and asset groups of the Google Ads account, as the cloud
\* function writes them into CampaignList and AssetGroupList.
AccountCampaignRows == <<CampRow(S("A"), S("C")), CampRow(S("B"), S("D"))>>

AccountAssetGroupRows ==
  <<AgRow(S("A"), S("C"), S("G")), AgRow(S("B"), S("D"), S("H"))>>

\* The commands on which the cloud function rewrites each of the two lists.
CampaignListCommands ==
  {base64Encode(<<"R", "E", "F", "R", "E", "S", "H">>),
   base64Encode(<<"R", "E", "F", "R", "E", "S", "H", "_", "C", "A", "M", "P", "A", "I", "G", "N", "_", "L", "I", "S", "T">>)}

AssetGroupListCommands ==
  {base64Encode(<<"R", "E", "F", "R", "E", "S", "H">>),
   base64Encode(<<"R", "E", "F", "R", "E", "S", "H", "_", "A", "S", "S", "E", "T", "_", "G", "R", "O", "U", "P", "_", "L", "I", "S", "T">>)}

\* The cloud function serves the oldest published message not yet served:
\* it runs outside the document, after the menu function that published the
\* message has returned, and writes the refreshed rows through the Sheets
\* API, which fires no trigger of the document's script.
CloudFunction ==
  /\ delivered < Len(requests)
  /\ LET data == requests[delivered + 1].messages[1].data
     IN  /\ campaignList' =
               IF data \in CampaignListCommands
               THEN Header(CAMPAIGN_LIST) \o AccountCampaignRows
               ELSE campaignList
         /\ assetGroupList' =
               IF data \in AssetGroupListCommands
               THEN Header(ASSET_GROUP_LIST) \o AccountAssetGroupRows
               ELSE assetGroupList
  /\ delivered' = delivered + 1
  /\ UNCHANGED <<newAssetGroups, newCampaigns, property, hasAccess, requests,
                 sidebar, last, editVars, adsVars>>

\* A document whose lists are empty or hold the account's first campaign,
\* with access granted or not.
InitRefresh ==
  /\ campaignList \in {Header(CAMPAIGN_LIST),
                       Header(CAMPAIGN_LIST) \o <<CampRow(S("A"), S("C"))>>}
  /\ assetGroupList = Header(ASSET_GROUP_LIST)
  /\ newAssetGroups = Header(NEW_ASSET_GROUPS)
  /\ newCampaigns = Header(NEW_CAMPAIGNS)
  /\ property = NoProperty
  /\ hasAccess \in BOOLEAN
  /\ requests = <<>>
  /\ sidebar = 0
  /\ last = Nothing
  /\ assets = Header(ASSETS)
  /\ validation = NoRules
  /\ edit = NoEdit
  /\ inputSheet = NoInputSheet
  /\ linked = {}
  /\ run = NoRun
  /\ delivered = 0

NextRefresh ==
  \/ onOpen
  \/ authCallback
  \/ pubsubRefreshAllRequest
  \/ pubsubRefreshCustomersRequest
  \/ pubsubRefreshCampaignsRequest
  \/ pubsubRefreshAssetGroupsRequest
  \/ pubsubRefreshAssetsRequest
  \/ pubsubRefreshSitelinksRequest
  \/ CloudFunction

\* Pub/Sub delivers every published message: the cloud function serves it
\* at some time.  The user's actions happen or not.
SpecRefresh ==
  InitRefresh /\ [][NextRefresh]_vars /\ WF_vars(CloudFunction)

----------------------------------------------------------------------------
(* The Ads script that swaps the assets of asset groups *)

inputColumnMap ==
  [CAMPAIGN |-> 0, ASSET_GROUP |-> 1, IMAGE_URL |-> 2, YOUTUBE_ID |-> 3,
   STATUS |-> 4]

assetTypes ==
  [SQUARE |-> "SQUARE_MARKETING_IMAGE", LANDSCAPE |-> "MARKETING_IMAGE",
   PORTRAIT |-> "PORTRAIT_MARKETING_IMAGE", VIDEO |-> "YOUTUBE_VIDEO",
   IMAGE |-> "IMAGE"]

placeholderYoutudeIds == <<"YT_ID_1", "YT_ID_2">>

placeholderImageNames == <<"YOUR_ASSET_1", "YOUR_ASSET_2">>

\* An image URL as the script reads it: what precedes the size directory, the
\* size directory, the file name and its extension.  A URL without an
\* 'images/<dir>/<size>/' path has no size directory.
SizedUrl(size, file) == <<"https://h/images/p/", size, "/", file, ".jpg">>

PlainUrl(file) == <<"https://h/", file, ".jpg">>

\* Width and height a size directory of the form <w>x<h> splits into.
Dimensions(size) ==
  CASE size = "600x314" -> <<600, 314>>
    [] size = "300x300" -> <<300, 300>>
    [] OTHER -> <<0, 0>>

\* getImageType: Math.round(width / height) === 1 is 1/2 <= w/h < 3/2.
getImageType(width, height) ==
  IF height > 0 /\ 2 * width >= height /\ 2 * width < 3 * height
  THEN assetTypes.SQUARE
  ELSE IF width > height THEN assetTypes.LANDSCAPE
  ELSE IF height > width THEN assetTypes.PORTRAIT
  ELSE "null"

\* parseImageUrl: [imageName, imageType], or a TypeError when the URL has no
\* size directory (match returns null).
parseImageUrl(imageUrl) ==
  IF Len(imageUrl) # 5
  THEN [ok |-> FALSE, imageName |-> <<>>, imageType |-> "null"]
  ELSE
    LET imageTypeFromPath == imageUrl[2]
        imageType ==
          IF imageTypeFromPath \in {"square300"}
          THEN assetTypes.SQUARE
          ELSE getImageType(Dimensions(imageTypeFromPath)[1],
                            Dimensions(imageTypeFromPath)[2])
    IN  [ok |-> TRUE, imageName |-> <<imageType, "_", imageUrl[4]>>,
         imageType |-> imageType]

\* The performance max campaigns of the account and their asset groups.
AccountCampaigns == {S("c1")}

AccountAssetGroups == {<<S("c1"), S("g1")>>, <<S("c1"), S("g2")>>}

\* The sizes of the placeholder images the account holds.
AccountImages ==
  [n \in Range(placeholderImageNames) |->
     IF n = "YOUR_ASSET_1" THEN <<600, 314>> ELSE <<300, 300>>]

\* range.sort on columns A, B, C ascending: cells compare by their place in
\* this order, blank cells last.
CellOrder ==
  <<S("c0"), S("c1"), S("g1"), S("g2"), SizedUrl("300x300", "4"),
    SizedUrl("600x314", "2"), SizedUrl("square300", "1"), PlainUrl("3"),
    EMPTY>>

Rank(v) == CHOOSE i \in DOMAIN CellOrder : CellOrder[i] = v

RowBefore(a, b) ==
  \/ Rank(a[0]) < Rank(b[0])
  \/ Rank(a[0]) = Rank(b[0]) /\ Rank(a[1]) < Rank(b[1])
  \/ Rank(a[0]) = Rank(b[0]) /\ Rank(a[1]) = Rank(b[1])
       /\ Rank(a[2]) <= Rank(b[2])

\* getSortedRange: the data rows (row 2 to the last row) in an order sorted
\* by columns A, B and C; the sheet itself is reordered.
SortedRanges(sheet) ==
  LET n == Len(sheet) - 1
      perms == {f \in [1..n -> 1..n] : \A i, j \in 1..n : i # j => f[i] # f[j]}
  IN  {[i \in 1..n |-> sheet[f[i] + 1]] : f \in
         {g \in perms : \A i, j \in 1..n :
            i < j => RowBefore(sheet[g[i] + 1], sheet[g[j] + 1])}}

\* removeImageFromAssetGroup for every placeholder image name: the links of
\* the asset group that are removed.
RemovedImages(assetGroup, imageType) ==
  {<<assetGroup[1], assetGroup[2], S(n), imageType>> :
     n \in {m \in Range(placeholderImageNames) :
              getImageType(AccountImages[m][1], AccountImages[m][2])
                = imageType}}

\* removeVideoFromAssetGroup for every placeholder YouTube id.
RemovedVideos(assetGroup) ==
  {<<assetGroup[1], assetGroup[2], S(y), assetTypes.VIDEO>> :
     y \in Range(placeholderYoutudeIds)}

\* The body of main's loop for values[row] (row counted from 0), on the
\* locals, the sheet, the account and the record of the run.  fetched is
\* whether the image URL could be fetched: createImageAsset returns null when
\* it could not (options, which the script does not declare, makes the fetch
\* throw inside its try block unless the deployer supplies it).
LoopBody(st, row, config, preview, fetched) ==
  LET cells == st.values[row + 1]
      imageUrl == cells[inputColumnMap.IMAGE_URL]
      youtubeId == cells[inputColumnMap.YOUTUBE_ID]
      lookedUp == st.performanceMaxCampaign = NULLVALUE
                    \/ st.performanceMaxCampaign
                         # cells[inputColumnMap.CAMPAIGN]
      performanceMaxCampaign ==
        IF lookedUp THEN cells[inputColumnMap.CAMPAIGN]
        ELSE st.performanceMaxCampaign
      fresh == st.assetGroup = NULLVALUE
                 \/ st.assetGroup[2] # cells[inputColumnMap.ASSET_GROUP]
      assetGroup ==
        IF fresh
        THEN <<performanceMaxCampaign, cells[inputColumnMap.ASSET_GROUP]>>
        ELSE st.assetGroup
      squareRemoved == IF fresh THEN FALSE ELSE st.imagesRemoved.SQUARE
      landscapeRemoved == IF fresh THEN FALSE ELSE st.imagesRemoved.LANDSCAPE
      videosRemoved == IF fresh THEN FALSE ELSE st.videosRemoved
      parsed == parseImageUrl(imageUrl)
      hasImage == imageUrl # EMPTY
      imageType == IF hasImage THEN parsed.imageType ELSE st.imageType
      status == IF hasImage /\ ~fetched
                THEN S("ERROR: 404 Image not found") ELSE S("SUCCESS")
      imageLinks ==
        IF hasImage /\ fetched
        THEN {<<assetGroup[1], assetGroup[2], parsed.imageName, imageType>>}
        ELSE {}
      videoLinks ==
        IF youtubeId # EMPTY /\ config.includeVideo
        THEN {<<assetGroup[1], assetGroup[2], <<"YT_pMax_">> \o youtubeId,
                assetTypes.VIDEO>>}
        ELSE {}
      dropLandscape == /\ landscapeRemoved = FALSE
                       /\ config.removeExistingImages
                       /\ imageType = assetTypes.LANDSCAPE
                       /\ status = S("SUCCESS")
      dropSquare == /\ squareRemoved = FALSE
                    /\ config.removeExistingImages
                    /\ imageType = assetTypes.SQUARE
                    /\ status = S("SUCCESS")
      dropVideos == /\ videosRemoved = FALSE
                    /\ config.removeExistingVideo
                    /\ status = S("SUCCESS")
      dropped ==
        (IF dropLandscape \/ dropSquare
         THEN RemovedImages(assetGroup, imageType) ELSE {})
          \cup (IF dropVideos THEN RemovedVideos(assetGroup) ELSE {})
  IN  IF lookedUp /\ performanceMaxCampaign \notin AccountCampaigns
      THEN [st EXCEPT !.ret = "Error"]
      ELSE IF fresh /\ assetGroup \notin AccountAssetGroups
      THEN [st EXCEPT !.ret = "Error",
                      !.performanceMaxCampaign = performanceMaxCampaign]
      ELSE IF hasImage /\ ~parsed.ok
      THEN [st EXCEPT !.ret = "TypeError"]
      ELSE
        [st EXCEPT
           !.performanceMaxCampaign = performanceMaxCampaign,
           !.assetGroup = assetGroup,
           !.imageType = imageType,
           !.imagesRemoved =
              [SQUARE |-> squareRemoved \/ dropSquare,
               LANDSCAPE |-> landscapeRemoved \/ dropLandscape],
           !.videosRemoved = videosRemoved \/ dropVideos,
           !.sheet = IF preview THEN st.sheet
                     ELSE [st.sheet EXCEPT
                             ![row + 2][inputColumnMap.STATUS] = status],
           !.linked = IF preview THEN st.linked
                      ELSE (st.linked \cup imageLinks \cup videoLinks)
                             \ dropped,
           !.added = st.added \cup {<<row, l>> : l \in imageLinks \cup videoLinks},
           !.removed = st.removed \cup {<<row, l>> : l \in dropped},
           !.written = IF preview THEN st.written
                       ELSE st.written \cup {<<row, status>>}]

\* The loop without the test of the STATUS cell.
RECURSIVE Loop_IgnoringStatus(_, _, _, _, _)
Loop_IgnoringStatus(st, row, config, preview, fetched) ==
  IF row >= Len(st.values) \/ st.ret # "none"
  THEN st
  ELSE IF st.values[row + 1][inputColumnMap.CAMPAIGN] = EMPTY
  THEN st
  ELSE Loop_IgnoringStatus(LoopBody(st, row, config, preview, fetched), row + 1, config, preview, fetched)

\* for (const row in values): stop at the first empty campaign cell, skip
\* the rows that carry a status, stop where the body throws.
RECURSIVE Loop(_, _, _, _, _)
Loop(st, row, config, preview, fetched) ==
  IF row >= Len(st.values) \/ st.ret # "none"
  THEN st
  ELSE IF st.values[row + 1][inputColumnMap.CAMPAIGN] = EMPTY
  THEN st
  ELSE IF st.values[row + 1][inputColumnMap.STATUS] = EMPTY
  THEN Loop(LoopBody(st, row, config, preview, fetched), row + 1, config, preview, fetched)
  ELSE Loop(st, row + 1, config, preview, fetched)

\* A run of main, in preview or not, on the sheet as it is.
main(preview, fetched) ==
  /\ run.count < MaxRuns
  /\ \E values \in SortedRanges(inputSheet) :
       LET st == Loop([values |-> values,
                       sheet |-> <<inputSheet[1]>> \o values,
                       linked |-> linked,
                       performanceMaxCampaign |-> NULLVALUE,
                       assetGroup |-> NULLVALUE,
                       imageType |-> "null",
                       imagesRemoved |-> [SQUARE |-> FALSE,
                                          LANDSCAPE |-> FALSE],
                       videosRemoved |-> FALSE,
                       added |-> {}, removed |-> {}, written |-> {},
                       ret |-> "none"],
                      0, run.config, preview, fetched)
       IN  /\ inputSheet' = st.sheet
           /\ linked' = st.linked
           /\ run' = [count |-> run.count + 1, preview |-> preview,
                      values |-> values, added |-> st.added,
                      removed |-> st.removed, written |-> st.written,
                      ret |-> st.ret, config |-> run.config]
  /\ UNCHANGED <<sheetVars, property, hasAccess, requests, sidebar, last,
                 editVars, delivered>>

\* A row of the input sheet.
InputRow(campaign, assetGroup, imageUrl, youtubeId, status) ==
  [c \in Columns(inputColumnMap) |->
     CASE c = inputColumnMap.CAMPAIGN -> campaign
       [] c = inputColumnMap.ASSET_GROUP -> assetGroup
       [] c = inputColumnMap.IMAGE_URL -> imageUrl
       [] c = inputColumnMap.YOUTUBE_ID -> youtubeId
       [] OTHER -> status]

\* The rows the input sheet is drawn from: with and without image and video,
\* with a status from an earlier run, of a campaign or asset group the
\* account does not hold, with a URL without size directory, without
\* campaign.
InputRows ==
  {InputRow(S("c1"), S("g1"), SizedUrl("600x314", "2"), S("v"), EMPTY),
   InputRow(S("c1"), S("g1"), SizedUrl("square300", "1"), EMPTY, EMPTY),
   InputRow(S("c1"), S("g2"), EMPTY, S("v"), EMPTY),
   InputRow(S("c1"), S("g2"), SizedUrl("300x300", "4"), EMPTY, S("SUCCESS")),
   InputRow(S("c0"), S("g1"), EMPTY, S("v"), EMPTY),
   InputRow(S("c1"), S("g1"), PlainUrl("3"), EMPTY, EMPTY),
   InputRow(EMPTY, S("g1"), SizedUrl("600x314", "2"), S("v"), EMPTY)}

InitAds ==
  /\ inputSheet \in {<<TitleRow(inputColumnMap)>> \o rows :
                       rows \in [1..MaxInputRows -> InputRows]}
  /\ linked = {<<g[1], g[2], S(n), getImageType(AccountImages[n][1],
                                             AccountImages[n][2])>> :
                 g \in AccountAssetGroups, n \in Range(placeholderImageNames)}
               \cup {<<g[1], g[2], S(y), assetTypes.VIDEO>> :
                       g \in AccountAssetGroups,
                       y \in Range(placeholderYoutudeIds)}
  /\ \E includeVideo \in BOOLEAN, removeExisting \in BOOLEAN :
       run = [NoRun EXCEPT !.config =
                [includeVideo |-> includeVideo,
                 removeExistingVideo |-> removeExisting,
                 removeExistingImages |-> removeExisting]]
  /\ newAssetGroups = Header(NEW_ASSET_GROUPS)
  /\ newCampaigns = Header(NEW_CAMPAIGNS)
  /\ campaignList = Header(CAMPAIGN_LIST)
  /\ assetGroupList = Header(ASSET_GROUP_LIST)
  /\ assets = Header(ASSETS)
  /\ property = NoProperty
  /\ hasAccess = FALSE
  /\ requests = <<>>
  /\ sidebar = 0
  /\ last = Nothing
  /\ validation = NoRules
  /\ edit = NoEdit
  /\ delivered = 0

NextAds == \E preview \in BOOLEAN, fetched \in BOOLEAN : main(preview, fetched)

SpecAds == InitAds /\ [][NextAds]_vars

----------------------------------------------------------------------------
(* The minimum-asset validator: C1 - C4, under SpecAssets *)

ValidatorRan ==
  last.op = "onEdit" /\ "checkMinimumAssets" \in last.invoked

ErrorPrefix == "ERROR: Asset requirements are not met:"

\* A row of NewAssetGroups that is named and not uploaded.
NamedNotUploaded(row) ==
  /\ row[0] # S("UPLOADED")
  /\ row[2] # EMPTY
  /\ row[3] # EMPTY
  /\ row[4] # EMPTY

\* All three headlines, both descriptions, the long headline and the business
\* name are present and the three image cells hold a URL the validator
\* accepts.
RowComplete(row) ==
  /\ \A c \in 10..16 : row[c] # EMPTY
  /\ \A c \in 17..19 : isValidURL(row[c])

AssetTypeTable ==
  {[cells |-> 10..12, required |-> 3, url |-> FALSE,
    missing |-> NoHeadlines, bad |-> EMPTY],
   [cells |-> {15}, required |-> 1, url |-> FALSE,
    missing |-> NoLongHeadline, bad |-> EMPTY],
   [cells |-> 13..14, required |-> 2, url |-> FALSE,
    missing |-> NoDescriptions, bad |-> EMPTY],
   [cells |-> {16}, required |-> 1, url |-> FALSE,
    missing |-> NoBusinessName, bad |-> EMPTY],
   [cells |-> {17}, required |-> 1, url |-> TRUE,
    missing |-> NoMarketingImage, bad |-> BadMarketingImage],
   [cells |-> {18}, required |-> 1, url |-> TRUE,
    missing |-> NoSquareImage, bad |-> BadSquareImage],
   [cells |-> {19}, required |-> 1, url |-> TRUE,
    missing |-> NoLogo, bad |-> BadLogo]}

Present(row, ty) == Cardinality({c \in ty.cells : row[c] # EMPTY})

RequirementMet(row, ty) ==
  /\ Present(row, ty) >= ty.required
  /\ ty.url => \A c \in ty.cells : isValidURL(row[c])

\* C2: after a run of checkMinimumAssets, the text in column B of every
\* validated row contains the 'Not enough ... / No ... assigned to the Asset
\* Group' line of each asset type that has too few assets, and no diagnostic
\* line of an asset type whose requirement is met.
C2_DiagnosticLines ==
  ValidatorRan =>
    \A i \in DOMAIN newAssetGroups :
      LET row == newAssetGroups[i]
      IN  <<i - 1, 1>> \in last.written =>
            \A ty \in AssetTypeTable :
              /\ Present(row, ty) < ty.required =>
                   ty.missing[1] \in Range(row[1])
              /\ RequirementMet(row, ty) =>
                   /\ ty.missing[1] \notin Range(row[1])
                   /\ ty.bad = EMPTY \/ ty.bad[1] \notin Range(row[1])

\* C3: a step of the validator leaves every row whose status cell is
\* 'UPLOADED' as it is, whatever the row holds and however often it runs.
C3_UploadedUntouched ==
  [][\A i \in DOMAIN newAssetGroups :
       newAssetGroups[i][0] = S("UPLOADED") =>
         newAssetGroups'[i] = newAssetGroups[i]]_vars

\* A run wrote the check of another row while an uploaded, named data row
\* with missing assets kept its column B.
C3_Witness ==
  /\ ValidatorRan
  /\ last.written # {}
  /\ \E i \in DOMAIN newAssetGroups :
       /\ i - 1 >= 5
       /\ newAssetGroups[i][0] = S("UPLOADED")
       /\ newAssetGroups[i][2] # EMPTY
       /\ newAssetGroups[i][3] # EMPTY
       /\ newAssetGroups[i][4] # EMPTY
       /\ ~RowComplete(newAssetGroups[i])
       /\ <<i - 1, 1>> \notin last.written

\* C4: a step of the validator leaves the first five rows of NewAssetGroups
\* (0-based indexes 0..4) as they are, also when such a row has account,
\* campaign and asset-group name.
C4_HeaderUntouched ==
  [][\A i \in DOMAIN newAssetGroups :
       i - 1 <= 4 => newAssetGroups'[i] = newAssetGroups[i]]_vars

\* A run wrote the check of a data row while row 4, which has account,
\* campaign and asset-group name and is not uploaded, was not written.
C4_Witness ==
  /\ ValidatorRan
  /\ last.written # {}
  /\ NamedNotUploaded(newAssetGroups[5])
  /\ \A w \in last.written : w[1] >= 5

----------------------------------------------------------------------------
(* The index rebuild: C5, C6, under SpecIndex *)

RebuildRan == last.op = "onOpen"

\* The data rows (sheet rows 6 onward) of a sheet.
RowsFrom6(sheet) == {sheet[i] : i \in 6..Len(sheet)}

\* The <<customer, campaign, asset group>> names of the data rows of the two
\* asset-group sheets, and the <<customer, campaign>> names of the data rows
\* of all four sheets, each row under the account named in its own cells.
GroupTriples ==
  {<<r[0], r[2], r[4]>> : r \in RowsFrom6(assetGroupList)}
    \cup {<<r[2], r[3], r[4]>> : r \in RowsFrom6(newAssetGroups)}

CampaignPairs ==
  {<<r[0], r[2]>> : r \in RowsFrom6(campaignList)}
    \cup {<<r[1], r[2]>> : r \in RowsFrom6(newCampaigns)}
    \cup {<<tr[1], tr[2]>> : tr \in GroupTriples}

\* C5: after updateUploadedValuesIntoProperty the stored index is the one
\* built from the sheets on an empty property, whatever the property held
\* before, and each of its customers, campaigns and asset groups is named by
\* a data row of CampaignList, NewCampaigns, AssetGroupList or NewAssetGroups.
C5_RebuiltFromSheetsOnly ==
  RebuildRan =>
    /\ property =
         updateUploadedValuesIntoProperty(NoProperty, campaignList,
                                          newCampaigns, assetGroupList,
                                          newAssetGroups)
    /\ \A cu \in DOMAIN property.val :
         /\ \E pr \in CampaignPairs : pr[1] = cu
         /\ \A ca \in DOMAIN property.val[cu] :
              /\ <<cu, ca>> \in CampaignPairs
              /\ \A g \in Range(property.val[cu][ca]) :
                   <<cu, ca, g>> \in GroupTriples

\* C6: after updateUploadedValuesIntoProperty every data row of NewCampaigns
\* that names an account A and a campaign C has made C a campaign of customer A in the
\* index, and every data row of NewAssetGroups with account A, campaign C and
\* name G, where C is indexed under A, has its G in index[A][C].
C6_NewRowsUnderOwnAccount ==
  RebuildRan =>
    /\ \A r \in RowsFrom6(newCampaigns) :
         (r[1] # EMPTY /\ r[2] # EMPTY) =>
           /\ Has(property.val, r[1])
           /\ Has(property.val[r[1]], r[2])
    /\ \A r \in RowsFrom6(newAssetGroups) :
         (/\ r[2] # EMPTY /\ r[3] # EMPTY /\ r[4] # EMPTY
          /\ Has(property.val, r[2]) /\ Has(property.val[r[2]], r[3])) =>
           r[4] \in Range(property.val[r[2]][r[3]])

----------------------------------------------------------------------------
(* The handlers and the menu: C7 - C10, under Spec *)

IndexMaintenance ==
  {"addNewCampaignUserEditsIntoProperty",
   "addNewAssetGroupsUserEditsIntoProperty"}

DropdownValidation == {"assetDataValidation", "assetGroupDataValidation"}

\* C7: onEdit dispatches by sheet: an edit in the name columns of NewCampaigns
\* or NewAssetGroups runs index maintenance, an edit in the name columns of
\* Assets or NewAssetGroups runs dropdown validation, an edit of
\* NewAssetGroups runs the minimum-asset validator, and an edit of any other
\* sheet writes no cell and runs none of them.
C7_EditDispatch ==
  last.op = "onEdit" =>
    /\ (\/ last.sheet = "NewCampaigns" /\ last.column <= 3
        \/ last.sheet = "NewAssetGroups" /\ last.column <= 5) =>
         last.invoked \cap IndexMaintenance # {}
    /\ (\/ last.sheet = "Assets" /\ last.column <= 5
        \/ last.sheet = "NewAssetGroups" /\ last.column <= 5) =>
         last.invoked \cap DropdownValidation # {}
    /\ last.sheet = "NewAssetGroups" =>
         "checkMinimumAssets" \in last.invoked
    /\ last.sheet \notin {"NewCampaigns", "NewAssetGroups", "Assets"} =>
         (last.written = {} /\ last.invoked = {})

\* The command each menu function publishes.
MenuCommand ==
  [pubsubRefreshAllRequest |->
     <<"R", "E", "F", "R", "E", "S", "H">>,
   pubsubRefreshCustomersRequest |->
     <<"R", "E", "F", "R", "E", "S", "H", "_", "C", "U", "S", "T", "O", "M", "E", "R", "_", "L", "I", "S", "T">>,
   pubsubRefreshCampaignsRequest |->
     <<"R", "E", "F", "R", "E", "S", "H", "_", "C", "A", "M", "P", "A", "I", "G", "N", "_", "L", "I", "S", "T">>,
   pubsubRefreshAssetGroupsRequest |->
     <<"R", "E", "F", "R", "E", "S", "H", "_", "A", "S", "S", "E", "T", "_", "G", "R", "O", "U", "P", "_", "L", "I", "S", "T">>,
   pubsubRefreshAssetsRequest |->
     <<"R", "E", "F", "R", "E", "S", "H", "_", "A", "S", "S", "E", "T", "S">>,
   pubsubRefreshSitelinksRequest |->
     <<"R", "E", "F", "R", "E", "S", "H", "_", "S", "I", "T", "E", "L", "I", "N", "K", "S">>,
   pubsubUploadRequest |->
     <<"U", "P", "L", "O", "A", "D">>,
   pubsubDeleteRequest |->
     <<"D", "E", "L", "E", "T", "E">>]

MenuOps == DOMAIN MenuCommand

RefreshOps == MenuOps \ {"pubsubUploadRequest", "pubsubDeleteRequest"}

\* C8: a call of pubsub made while the service has no access sends no
\* request, shows the authorization sidebar and returns undefined; a request
\* is sent only from a state where the service has access.
C8_NoAccessNoRequest ==
  [][/\ (~hasAccess /\ last'.op \in MenuOps) =>
          /\ requests' = requests
          /\ sidebar' = sidebar + 1
          /\ last'.ret = "undefined"
     /\ requests' # requests => hasAccess]_vars

\* A menu function was run without access: the sidebar was shown, nothing was
\* sent.
C8_Witness ==
  /\ last.op \in MenuOps
  /\ last.ret = "undefined"
  /\ ~hasAccess
  /\ sidebar >= 1
  /\ requests = <<>>

\* The bytes a base64 text stands for.
Base64Decode(text) ==
  LET n == Len(text)
      idx(ch) == IF ch = "=" THEN 0
                 ELSE (CHOOSE i \in DOMAIN Base64Alphabet :
                         Base64Alphabet[i] = ch) - 1
      pad == Cardinality({i \in 1..n : text[i] = "="})
      v(g) == idx(text[4 * g - 3]) * 262144 + idx(text[4 * g - 2]) * 4096
                + idx(text[4 * g - 1]) * 64 + idx(text[4 * g])
      byte(k) == LET g == ((k - 1) \div 3) + 1
                     r == (k - 1) % 3
                 IN  IF r = 0 THEN v(g) \div 65536
                     ELSE IF r = 1 THEN (v(g) \div 256) % 256
                     ELSE v(g) % 256
  IN  [k \in 1..(3 * (n \div 4) - pad) |-> byte(k)]

Bytes(str) == [k \in 1..Len(str) |-> Ascii(str[k])]

C10_UploadDeleteFrame ==
  [][/\ last'.op \in {"pubsubUploadRequest", "pubsubDeleteRequest"} =>
          (property' = property /\ UNCHANGED sheetVars)
     /\ (last'.op \in MenuOps /\ property' # property) =>
          last'.op \in RefreshOps
     /\ last'.op \in RefreshOps \cup {"onOpen"} =>
          (property' = Rebuilt /\ UNCHANGED sheetVars)]_vars

\* The upload was run, with access, on a document whose index was not built.
C10_Witness ==
  /\ last.op = "pubsubUploadRequest"
  /\ last.ret = "response"
  /\ property = NoProperty
  /\ Rebuilt # NoProperty

----------------------------------------------------------------------------
(* Index maintenance on an edit: C11, C13 - C17, under SpecEdits *)

\* The last step was a handler run on an edit of more than one cell.
MultiCellEditHandled ==
  /\ last.op \in IndexMaintenance
  /\ (edit.numRows > 1 \/ edit.numColumns > 1)

\* The last step was a handler run on an edit of one cell of the column.
SingleCellEditHandled(op, column) ==
  /\ last.op = op
  /\ edit.numRows = 1 /\ edit.numColumns = 1
  /\ edit.column = column

\* C11: after addNewCampaignUserEditsIntoProperty or
\* addNewAssetGroupsUserEditsIntoProperty has handled an edit of more than one
\* row or more than one column, the stored property is the index that
\* updateUploadedValuesIntoProperty builds from the sheets as they are now.
C11_MultiCellEditRebuilds ==
  MultiCellEditHandled => property = Rebuilt

\* The index the handlers read, before and after a step.
IndexBefore == getProperty(property)

IndexAfter == getProperty(property')

Count(list, x) == Cardinality({i \in DOMAIN list : list[i] = x})

\* index[customer][campaign], the empty list when there is no such entry.
ListOf(o, customer, campaign) ==
  IF Has(o, customer) /\ Has(o[customer], campaign)
  THEN o[customer][campaign]
  ELSE <<>>

\* The <<customer, campaign>> pairs of an index, and its asset-group entries.
PairsOf(o) == UNION {{<<cu, ca>> : ca \in DOMAIN o[cu]} : cu \in DOMAIN o}

EntriesOf(o) ==
  UNION {{<<pr[1], pr[2], i>> : i \in DOMAIN o[pr[1]][pr[2]]} :
           pr \in PairsOf(o)}

\* The cells of the edited row, after the edit.
EditedAccount == newAssetGroups'[edit'.row][NEW_ASSET_GROUPS.ACCOUNT_NAME]

EditedCampaign == newAssetGroups'[edit'.row][NEW_ASSET_GROUPS.CAMPAIGN_NAME]

EditedName == newAssetGroups'[edit'.row][NEW_ASSET_GROUPS.ASSET_GROUP_NAME]

\* C13: a single-cell edit of the asset-group-name cell of a NewAssetGroups
\* row with account A and campaign C, from O to N, leaves N in index[A][C],
\* removes one occurrence of O from it when O was there, and changes no other
\* list of the index.
C13_NameEditPatchesOwnList ==
  [][(/\ SingleCellEditHandled("addNewAssetGroupsUserEditsIntoProperty",
                               NEW_ASSET_GROUPS.ASSET_GROUP_NAME + 1)'
      /\ EditedAccount # EMPTY
      /\ EditedCampaign # EMPTY)
     => LET A == EditedAccount
            C == EditedCampaign
            N == edit'.value
            O == edit'.oldValue
        IN  /\ Count(ListOf(IndexAfter, A, C), N) >= 1
            /\ (O # N /\ Count(ListOf(IndexBefore, A, C), O) >= 1) =>
                 Count(ListOf(IndexAfter, A, C), O)
                   = Count(ListOf(IndexBefore, A, C), O) - 1
            /\ \A pr \in (PairsOf(IndexBefore) \cup PairsOf(IndexAfter))
                            \ {<<A, C>>} :
                 /\ pr \in PairsOf(IndexBefore) \cap PairsOf(IndexAfter)
                 /\ IndexAfter[pr[1]][pr[2]] = IndexBefore[pr[1]][pr[2]]
    ]_vars

\* C14: a single-cell edit of the campaign cell of a NewAssetGroups row with
\* account A and non-empty name G, from O to N, takes G out of index[A][O]
\* and appends it to index[A][N], keeping the number of asset-group entries
\* of the index; when G was not in index[A][O] nothing is removed and no
\* entry is appended.
C14_CampaignEditMovesGroup ==
  [][(/\ SingleCellEditHandled("addNewAssetGroupsUserEditsIntoProperty",
                               NEW_ASSET_GROUPS.CAMPAIGN_NAME + 1)'
      /\ Truthy(edit'.oldValue)
      /\ EditedAccount # EMPTY
      /\ EditedName # EMPTY)
     => LET A == EditedAccount
            G == EditedName
            N == edit'.value
            O == edit'.oldValue
        IN  IF Count(ListOf(IndexBefore, A, O), G) >= 1
            THEN /\ Count(ListOf(IndexAfter, A, O), G)
                      = Count(ListOf(IndexBefore, A, O), G) - 1
                 /\ ListOf(IndexAfter, A, N)
                      = Append(ListOf(IndexBefore, A, N), G)
                 /\ Cardinality(EntriesOf(IndexAfter))
                      = Cardinality(EntriesOf(IndexBefore))
            ELSE \A pr \in PairsOf(IndexBefore) \cup PairsOf(IndexAfter) :
                   ListOf(IndexAfter, pr[1], pr[2])
                     = ListOf(IndexBefore, pr[1], pr[2])
    ]_vars

\* C15: a single-cell edit of the account cell of a NewAssetGroups row with
\* campaign C and non-empty name G, from O to N, where G is in index[O][C],
\* leaves G in index[N][C] and no longer in index[O][C].
C15_AccountEditMovesGroup ==
  [][(/\ SingleCellEditHandled("addNewAssetGroupsUserEditsIntoProperty",
                               NEW_ASSET_GROUPS.ACCOUNT_NAME + 1)'
      /\ Truthy(edit'.oldValue)
      /\ EditedName # EMPTY
      /\ Count(ListOf(IndexBefore, edit'.oldValue, EditedCampaign),
               EditedName) = 1)
     => LET C == EditedCampaign
            G == EditedName
            N == edit'.value
            O == edit'.oldValue
        IN  /\ Count(ListOf(IndexAfter, N, C), G) >= 1
            /\ Count(ListOf(IndexAfter, O, C), G) = 0
    ]_vars

\* C16: a single-cell edit of the campaign-name cell of a NewCampaigns row
\* with account A, from O to N, leaves index[A] with the key N and an empty
\* list there, without the key O, and changes no entry of another customer
\* or of another campaign of A.
C16_CampaignRenameUnderAccount ==
  [][(/\ SingleCellEditHandled("addNewCampaignUserEditsIntoProperty",
                               NEW_CAMPAIGNS.CAMPAIGN_NAME + 1)'
      /\ newCampaigns'[edit'.row][NEW_CAMPAIGNS.ACCOUNT_NAME] # EMPTY)
     => LET A == newCampaigns'[edit'.row][NEW_CAMPAIGNS.ACCOUNT_NAME]
            N == edit'.value
            O == edit'.oldValue
        IN  /\ <<A, N>> \in PairsOf(IndexAfter)
            /\ ListOf(IndexAfter, A, N) = <<>>
            /\ <<A, ToKey(O)>> \notin PairsOf(IndexAfter)
            /\ \A pr \in (PairsOf(IndexBefore) \cup PairsOf(IndexAfter))
                            \ {<<A, N>>, <<A, ToKey(O)>>} :
                 /\ pr \in PairsOf(IndexBefore) \cap PairsOf(IndexAfter)
                 /\ IndexAfter[pr[1]][pr[2]] = IndexBefore[pr[1]][pr[2]]
    ]_vars

\* The columns of the two sheets that hold no account, campaign or
\* asset-group name.
OtherColumns(sheet) ==
  IF sheet = SHEET_NAMES.NEW_CAMPAIGNS
  THEN (1..(NEW_CAMPAIGNS.CAMPAIGN_NAME + 2))
         \ {NEW_CAMPAIGNS.ACCOUNT_NAME + 1, NEW_CAMPAIGNS.CAMPAIGN_NAME + 1}
  ELSE (1..(NEW_ASSET_GROUPS.ASSET_GROUP_NAME + 2))
         \ {NEW_ASSET_GROUPS.ACCOUNT_NAME + 1,
            NEW_ASSET_GROUPS.CAMPAIGN_NAME + 1,
            NEW_ASSET_GROUPS.ASSET_GROUP_NAME + 1}

OtherColumnEdited ==
  /\ last.op \in IndexMaintenance
  /\ edit.numRows = 1 /\ edit.numColumns = 1
  /\ edit.column \in OtherColumns(last.sheet)

\* C17: a single-cell edit of a column that holds no account, campaign or
\* asset-group name (status, asset check, the columns to the right of the
\* names) leaves the stored index as it was.
C17_OtherColumnsKeepIndex ==
  [][OtherColumnEdited' => IndexAfter = IndexBefore]_vars

\* An edit of the status column and an edit to the right of the names were
\* handled with a non-empty index stored.
C17_Witness ==
  /\ OtherColumnEdited
  /\ edit.count = 2
  /\ property.set
  /\ PairsOf(property.val) # {}
  /\ last.sheet = SHEET_NAMES.NEW_ASSET_GROUPS
  /\ edit.column = NEW_ASSET_GROUPS.ASSET_GROUP_NAME + 2

----------------------------------------------------------------------------
(* Repeated rebuilds: C12, under Spec *)

\* The data rows of AssetGroupList and NewAssetGroups that carry the
\* customer, campaign and asset-group name.
RowsCarrying(customer, campaign, name) ==
  Cardinality({i \in DataRowIds(assetGroupList) :
                 /\ assetGroupList[i][ASSET_GROUP_LIST.CUSTOMER_NAME]
                      = customer
                 /\ assetGroupList[i][ASSET_GROUP_LIST.CAMPAIGN_NAME]
                      = campaign
                 /\ assetGroupList[i][ASSET_GROUP_LIST.ASSET_GROUP_NAME]
                      = name})
    + Cardinality({i \in DataRowIds(newAssetGroups) :
                     /\ newAssetGroups[i][NEW_ASSET_GROUPS.ACCOUNT_NAME]
                          = customer
                     /\ newAssetGroups[i][NEW_ASSET_GROUPS.CAMPAIGN_NAME]
                          = campaign
                     /\ newAssetGroups[i][NEW_ASSET_GROUPS.ASSET_GROUP_NAME]
                          = name})

\* C12: with the sheets unchanged, a rebuild (onOpen or a refresh menu
\* action) after an earlier rebuild stores the index that was stored already,
\* and in the index stored by a rebuild every asset-group name occurs in
\* index[customer][campaign] as many times as there are sheet rows carrying
\* that customer, campaign and asset group (a rebuild writes no sheet cell,
\* so the rows are those of either state of the step).
C12_RebuildIdempotent ==
  [][(last'.op \in RefreshOps \cup {"onOpen"})
     => /\ (property.set /\ sheetVars' = sheetVars) => property' = property
        /\ \A e \in EntriesOf(IndexAfter) :
             LET g == IndexAfter[e[1]][e[2]][e[3]]
             IN  Count(IndexAfter[e[1]][e[2]], g)
                   = RowsCarrying(e[1], e[2], g)
    ]_vars

----------------------------------------------------------------------------
(* Dropdown validation: C18 and C19, under SpecValidation *)

\* The rows of the edit the last handler was given.
EditedRows == edit.row .. (edit.row + edit.numRows - 1)

\* The cell at (row, column) of the sheet carries a dropdown of exactly the
\* values.
HasDropdown(sheetName, row, column, values) ==
  /\ Has(validation, <<sheetName, row, column>>)
  /\ validation[<<sheetName, row, column>>] = values

\* The campaigns the index holds under the account of a row.
CampaignsOf(sheet, row, enum) ==
  LET account == ToKey(GetCell(sheet, row, enum.ACCOUNT_NAME + 1))
  IN  IF Has(getProperty(property), account)
      THEN DOMAIN getProperty(property)[account]
      ELSE {}

\* The asset groups the index holds under the account and campaign of a row
\* of the Assets sheet.
AssetGroupsOf(row) ==
  LET account == ToKey(GetCell(assets, row, ASSETS.ACCOUNT_NAME + 1))
      campaign == ToKey(GetCell(assets, row, ASSETS.CAMPAIGN_NAME + 1))
  IN  IF Has(getProperty(property), account)
        /\ Has(getProperty(property)[account], campaign)
      THEN Range(getProperty(property)[account][campaign])
      ELSE {}

CampaignIndexed(row) ==
  LET account == ToKey(GetCell(assets, row, ASSETS.ACCOUNT_NAME + 1))
      campaign == ToKey(GetCell(assets, row, ASSETS.CAMPAIGN_NAME + 1))
  IN  /\ Has(getProperty(property), account)
      /\ Has(getProperty(property)[account], campaign)

Indexed(sheet, row, enum) ==
  Has(getProperty(property),
      ToKey(GetCell(sheet, row, enum.ACCOUNT_NAME + 1)))

\* C18: after assetGroupDataValidation handled an edit of n rows starting at
\* row r in one of the name columns of NewAssetGroups, every row r..r+n-1
\* whose account the index holds carries a campaign dropdown of exactly the
\* campaigns indexed under that account, and the run set the rule of no
\* other row: the recursion took one step per row.
C18_EveryRowGetsCampaignDropdown ==
  (/\ last.op = "assetGroupDataValidation"
   /\ edit.column <= NEW_ASSET_GROUPS.ASSET_GROUP_NAME + 1)
    => /\ \A row \in EditedRows :
            Indexed(newAssetGroups, row, NEW_ASSET_GROUPS)
              => /\ <<row, NEW_ASSET_GROUPS.CAMPAIGN_NAME + 1>>
                      \in last.written
                 /\ HasDropdown(SHEET_NAMES.NEW_ASSET_GROUPS, row,
                                NEW_ASSET_GROUPS.CAMPAIGN_NAME + 1,
                                CampaignsOf(newAssetGroups, row,
                                            NEW_ASSET_GROUPS))
       /\ \A cell \in last.written : cell[1] \in EditedRows

\* C19: after assetDataValidation handled an edit of n rows of the Assets
\* sheet, an edit of the account column left on every one of the n rows a
\* campaign dropdown of the campaigns indexed under the row's account, an
\* edit of the campaign column left on every one of the n rows an
\* asset-group dropdown of the groups indexed under the row's account and
\* campaign, and an edit of any other column set no rule; no row outside
\* the n rows was touched.
C19_AssetsDropdownCascade ==
  (last.op = "assetDataValidation")
    => /\ (edit.column = ASSETS.ACCOUNT_NAME + 1)
            => \A row \in EditedRows :
                 Indexed(assets, row, ASSETS)
                   => /\ {c \in last.written : c[1] = row}
                           = {<<row, ASSETS.CAMPAIGN_NAME + 1>>}
                      /\ HasDropdown(SHEET_NAMES.ASSETS, row,
                                     ASSETS.CAMPAIGN_NAME + 1,
                                     CampaignsOf(assets, row, ASSETS))
       /\ (edit.column = ASSETS.CAMPAIGN_NAME + 1)
            => \A row \in EditedRows :
                 CampaignIndexed(row)
                   => /\ {c \in last.written : c[1] = row}
                           = {<<row, ASSETS.ASSET_GROUP_NAME + 1>>}
                      /\ HasDropdown(SHEET_NAMES.ASSETS, row,
                                     ASSETS.ASSET_GROUP_NAME + 1,
                                     AssetGroupsOf(row))
       /\ (edit.column \notin {ASSETS.ACCOUNT_NAME + 1,
                               ASSETS.CAMPAIGN_NAME + 1})
            => last.written = {}
       /\ \A cell \in last.written : cell[1] \in EditedRows

----------------------------------------------------------------------------
(* Rows the rebuild cannot place: C20, under SpecIndex *)

\* The customer, campaign and asset group of the data rows of AssetGroupList
\* and of NewAssetGroups.
AssetGroupRowNames ==
  {<<assetGroupList[i][ASSET_GROUP_LIST.CUSTOMER_NAME],
     assetGroupList[i][ASSET_GROUP_LIST.CAMPAIGN_NAME],
     assetGroupList[i][ASSET_GROUP_LIST.ASSET_GROUP_NAME]>> :
     i \in DataRowIds(assetGroupList)}
    \cup
  {<<newAssetGroups[i][NEW_ASSET_GROUPS.ACCOUNT_NAME],
     newAssetGroups[i][NEW_ASSET_GROUPS.CAMPAIGN_NAME],
     newAssetGroups[i][NEW_ASSET_GROUPS.ASSET_GROUP_NAME]>> :
     i \in DataRowIds(newAssetGroups)}

\* The index holds the campaign under the customer.
Placeable(index, customer, campaign) ==
  Has(index, ToKey(customer)) /\ Has(index[ToKey(customer)], ToKey(campaign))

\* C20: a rebuild always ends by storing the property; the asset group of
\* every AssetGroupList or NewAssetGroups row whose customer and campaign the
\* index holds is in the list of that customer and campaign, whatever other
\* rows were skipped.
C20_UnplaceableRowsSkipped ==
  (last.op \in RefreshOps \cup {"onOpen"})
    => /\ property.set
       /\ \A n \in AssetGroupRowNames :
            Placeable(getProperty(property), n[1], n[2])
              => n[3] \in Range(getProperty(property)[ToKey(n[1])]
                                                     [ToKey(n[2])])

----------------------------------------------------------------------------
(* The URL schemes the validator accepts: C21, under SpecAssets *)

SchemeHttp == <<"h", "t", "t", "p", ":", "/", "/">>

\* A well-formed URL with the http:// or the https:// scheme: what follows
\* the scheme is what the validator's pattern asks for after its own scheme.
WellFormedUrl(str) ==
  \/ isValidURL(str)
  \/ /\ Len(str) >= Len(SchemeHttp)
     /\ SubSeq(str, 1, Len(SchemeHttp)) = SchemeHttp
     /\ isValidURL(UrlPrefix \o SubSeq(str, Len(SchemeHttp) + 1, Len(str)))

\* C21: isValidURL rejects the empty string, and after a run of
\* checkMinimumAssets every well-formed http:// or https:// URL in an image
\* cell of a validated row is one isValidURL accepts, and a validated row
\* whose three image cells hold well-formed URLs carries none of the
\* '... contains an invalid URL' lines in column B.
C21_HttpAndHttpsAccepted ==
  /\ ~isValidURL(EMPTY)
  /\ ValidatorRan =>
       \A i \in DOMAIN newAssetGroups :
         LET row == newAssetGroups[i]
         IN  <<i - 1, 1>> \in last.written =>
               /\ \A c \in 17..19 :
                    WellFormedUrl(row[c]) => isValidURL(row[c])
               /\ (\A c \in 17..19 : WellFormedUrl(row[c])) =>
                    /\ BadMarketingImage[1] \notin Range(row[1])
                    /\ BadSquareImage[1] \notin Range(row[1])
                    /\ BadLogo[1] \notin Range(row[1])

----------------------------------------------------------------------------
(* The Ads script's runs: C22, under SpecAds *)

\* The rows (counted from 0, as main counts them) the last run acted on: it
\* added an asset for them, removed a placeholder for them, or wrote their
\* status.
ProcessedRows ==
  {e[1] : e \in run.added \cup run.removed \cup run.written}

\* The STATUS cell a row had when the run read the sheet.
StatusRead(row) == run.values[row + 1][inputColumnMap.STATUS]

----------------------------------------------------------------------------
(* The index after a refresh: C23, under SpecRefresh *)

\* The cloud function has served a refresh and the lists hold the rows of
\* the account.
RefreshWritten ==
  /\ delivered > 0
  /\ campaignList = Header(CAMPAIGN_LIST) \o AccountCampaignRows
  /\ assetGroupList = Header(ASSET_GROUP_LIST) \o AccountAssetGroupRows

\* The stored index holds every campaign of CampaignList under its customer
\* and every asset group of AssetGroupList under its customer and campaign.
IndexHoldsLists ==
  /\ property.set
  /\ \A i \in DataRowIds(campaignList) :
       Placeable(getProperty(property),
                 campaignList[i][CAMPAIGN_LIST.CUSTOMER_NAME],
                 campaignList[i][CAMPAIGN_LIST.CAMPAIGN_NAME])
  /\ \A i \in DataRowIds(assetGroupList) :
       LET cu == assetGroupList[i][ASSET_GROUP_LIST.CUSTOMER_NAME]
           ca == assetGroupList[i][ASSET_GROUP_LIST.CAMPAIGN_NAME]
       IN  /\ Placeable(getProperty(property), cu, ca)
           /\ assetGroupList[i][ASSET_GROUP_LIST.ASSET_GROUP_NAME]
                \in Range(getProperty(property)[ToKey(cu)][ToKey(ca)])

\* C23: once the cloud function has written the refreshed rows into
\* CampaignList and AssetGroupList, the stored index eventually holds those
\* rows, whether or not the user acts again.
C23_IndexFollowsRefresh == RefreshWritten ~> IndexHoldsLists

====
